---------------------------- MODULE Spec2Model ----------------------------
(***************************************************************************)
(* FluidFill api-gw (src/apps/api-gw/src/index.ts).                        *)
(*                                                                         *)
(* Three specifications share this module:                                 *)
(*   SpecTok  collectPlaceholderTokens, a pure function, applied to every  *)
(*            string of a bounded set;                                     *)
(*   SpecMap  the mapping loop of POST /api/doc/:id/render, one field per  *)
(*            step, over bounded schemas, answers and placeholder lists;   *)
(*   Spec     the gateway: requests interleave at every await, over the    *)
(*            tables documents/schemas/answers and the uploads directory.  *)
(*                                                                         *)
(* A JavaScript string is a sequence of one-character strings.             *)
(***************************************************************************)
EXTENDS Integers, Sequences, FiniteSets, TLC

VARIABLES
  source,      \* SpecTok: the argument of collectPlaceholderTokens
  tokens,      \* SpecTok: the array it returned
  tokPc,       \* SpecTok: "call" before the call, "return" after it
  schemaBody,  \* SpecMap: schema.body, the stored schema of the document
  answersBody, \* SpecMap: answers.body, the stored answer set
  parseJson,   \* SpecMap: doc.parse_json
  mapping,     \* SpecMap: the token -> value object under construction
  groupIdx,    \* SpecMap: position of the outer loop (for group of schemaGroups)
  fieldIdx,    \* SpecMap: position of the inner loop (for field of fields)
  documents,   \* gateway: rows of table documents
  placeholders,\* gateway: rows of table placeholders
  schemas,     \* gateway: rows of table schemas
  answers,     \* gateway: rows of table answers
  files,       \* gateway: the files of the uploads directory, by document id
  locked,      \* gateway: documents rows held FOR UPDATE by a delete
  now,         \* gateway: the database clock, now()
  nextDoc,     \* gateway: the next randomUUID() of an upload
  nextUuid,    \* gateway: the next gen_random_uuid() of a row
  reqs,        \* gateway: the requests in flight, one per slot
  prevSchema,  \* history: per document, the last successful POST schema response
  firstAnswer, \* history: per document, the first successful POST answer response
  prevAnswer,  \* history: per document, the last successful POST answer response
  deleted,     \* history: the documents a DELETE has removed
  unlinkFailed \* history: the files an unlink has failed to remove

tokVars == <<source, tokens, tokPc>>
mapVars == <<schemaBody, answersBody, parseJson, mapping, groupIdx, fieldIdx>>
dbVars  == <<documents, placeholders, schemas, answers, locked, now, nextUuid>>
docHist == <<prevSchema, firstAnswer, prevAnswer, deleted>>
histVars == <<docHist, unlinkFailed>>
gwVars  == <<dbVars, files, nextDoc, reqs, histVars>>

vars == <<tokVars, mapVars, gwVars>>

---------------------------------------------------------------------------
(* Bounds of the model. *)

MaxTokLen == 5
MaxFields == 2
MaxDocs == 1
MaxClock == 3
MaxReq == 2

\* errorText.slice(0, 400), index.ts 894
DetailMax == 400

---------------------------------------------------------------------------
(* The state each specification leaves alone. *)

DocIds == 1..MaxDocs
Slots == 1..MaxReq

NoRes == [status |-> 0, error |-> "", info |-> "", needs |-> <<>>, rows |-> <<>>, detail |-> <<>>]

NoPayload == [kind |-> "missing", body |-> <<>>, schema_id |-> <<>>]

\* A slot with no request in it.
IdleReq ==
  [op |-> "idle", id |-> 0, pc |-> "idle", at |-> 0, doc |-> <<>>, rows |-> <<>>,
   schema |-> <<>>, answers |-> <<>>, json |-> <<>>, payload |-> NoPayload,
   sent |-> <<>>, calls |-> 0, collab |-> "", res |-> NoRes]

TokIdle ==
  /\ source = <<>>
  /\ tokens = <<>>
  /\ tokPc = "idle"

MapIdle ==
  /\ schemaBody = [groups |-> <<>>]
  /\ answersBody = <<>>
  /\ parseJson = [placeholders |-> <<>>]
  /\ mapping = <<>>
  /\ groupIdx = 0
  /\ fieldIdx = 0

GwInit ==
  /\ documents = {}
  /\ placeholders = {}
  /\ schemas = {}
  /\ answers = {}
  /\ files = {}
  /\ locked = {}
  /\ now = 0
  /\ nextDoc = 1
  /\ nextUuid = 1
  /\ reqs = [r \in Slots |-> IdleReq]
  /\ prevSchema = [d \in DocIds |-> <<>>]
  /\ firstAnswer = [d \in DocIds |-> <<>>]
  /\ prevAnswer = [d \in DocIds |-> <<>>]
  /\ deleted = {}
  /\ unlinkFailed = {}

---------------------------------------------------------------------------
(* Strings. *)

Min(S) == CHOOSE x \in S : \A y \in S : x <= y
Max(S) == CHOOSE x \in S : \A y \in S : x >= y

Range(s) == {s[i] : i \in DOMAIN s}

\* The characters String.prototype.trim strips that the model's strings use.
IsSpace(c) == c \in {" ", "\t", "\n", "\r"}

\* String.prototype.trim
Trim(s) ==
  LET keep == {i \in 1..Len(s) : ~IsSpace(s[i])}
  IN  IF keep = {} THEN <<>> ELSE SubSeq(s, Min(keep), Max(keep))

\* /_{3,}/.test(s)
HasUnderscoreRun(s) ==
  \E i \in 1..(Len(s) - 2) : s[i] = "_" /\ s[i + 1] = "_" /\ s[i + 2] = "_"

\* /^\[[^\]]+\]$/.test(s)
IsBracketed(s) ==
  /\ Len(s) >= 3
  /\ s[1] = "["
  /\ s[Len(s)] = "]"
  /\ \A i \in 2..(Len(s) - 1) : s[i] # "]"

\* s.includes(c)
Includes(s, c) == \E i \in 1..Len(s) : s[i] = c

\* s.replace(/_/g, " ")
ReplaceUnderscores(s) == [i \in 1..Len(s) |-> IF s[i] = "_" THEN " " ELSE s[i]]

\* `[${s}]`
Bracket(s) == <<"[">> \o s \o <<"]">>

SetAdd_Append(set, x) == Append(set, x)

\* Set.prototype.add on a Set kept as the sequence of its elements in
\* insertion order (the order Array.from and for..of visit them in).
SetAdd(set, x) == IF x \in Range(set) THEN set ELSE Append(set, x)

---------------------------------------------------------------------------
(* collectPlaceholderTokens, index.ts 177-209. *)

\* 189-191: a run of three or more underscores makes the string a token.
runBranch(set, trimmed) ==
  IF HasUnderscoreRun(trimmed) THEN SetAdd(set, trimmed) ELSE set

bracketBranch_AlwaysInner(set, trimmed) ==
  SetAdd(SetAdd(set, trimmed), Trim(SubSeq(trimmed, 2, Len(trimmed) - 1)))

\* 194-198: the bracketed string, and its inner text when that holds a run.
bracketBranch(set, trimmed) ==
  LET whole == SetAdd(set, trimmed)
      inner == Trim(SubSeq(trimmed, 2, Len(trimmed) - 1))
  IN  IF HasUnderscoreRun(inner) THEN SetAdd(whole, inner) ELSE whole

underscoreBranch_NoTrim(set, trimmed) ==
  SetAdd(set, Bracket(ReplaceUnderscores(trimmed)))

\* 200-203: a machine key, underscores shown as spaces, in brackets.
underscoreBranch(set, trimmed) ==
  LET display == Trim(ReplaceUnderscores(trimmed))
  IN  IF display # <<>> THEN SetAdd(set, Bracket(display)) ELSE set

\* 205: a string with a space, in brackets.
spaceBranch(set, trimmed) == SetAdd(set, Bracket(trimmed))

collectPlaceholderTokens_RunExclusive(src) ==
  LET trimmed == Trim(src)
  IN  IF src = <<>> \/ trimmed = <<>> THEN <<>>
      ELSE IF HasUnderscoreRun(trimmed) THEN <<trimmed>>
      ELSE IF IsBracketed(trimmed) THEN bracketBranch(<<>>, trimmed)
      ELSE IF Includes(trimmed, "_") THEN underscoreBranch(<<>>, trimmed)
      ELSE IF Includes(trimmed, " ") THEN spaceBranch(<<>>, trimmed)
      ELSE <<>>

collectPlaceholderTokens(src) ==
  LET trimmed == Trim(src)
      tokens1 == runBranch(<<>>, trimmed)
  IN  IF src = <<>> THEN <<>>
      ELSE IF trimmed = <<>> THEN <<>>
      ELSE IF IsBracketed(trimmed) THEN bracketBranch(tokens1, trimmed)
      ELSE IF Includes(trimmed, "_") THEN underscoreBranch(tokens1, trimmed)
      ELSE IF Includes(trimmed, " ") THEN spaceBranch(tokens1, trimmed)
      ELSE tokens1

---------------------------------------------------------------------------
(* JSON values of an answer body, and String(val). *)

JUndefined == [t |-> "undefined", s |-> <<>>, n |-> 0]
JNull      == [t |-> "null", s |-> <<>>, n |-> 0]
JStr(s)    == [t |-> "string", s |-> s, n |-> 0]
JNum(n)    == [t |-> "number", s |-> <<>>, n |-> n]
JBool(b)   == [t |-> "boolean", s |-> <<>>, n |-> IF b THEN 1 ELSE 0]

DigitChar == <<"0", "1", "2", "3", "4", "5", "6", "7", "8", "9">>

RECURSIVE Digits(_)
Digits(n) ==
  IF n < 10 THEN <<DigitChar[n + 1]>>
  ELSE Digits(n \div 10) \o <<DigitChar[(n % 10) + 1]>>

\* String(val), 870, for the values a JSON body holds.
String(val) ==
  CASE val.t = "string"    -> val.s
    [] val.t = "number"    -> IF val.n < 0 THEN <<"-">> \o Digits(-val.n) ELSE Digits(val.n)
    [] val.t = "boolean"   -> IF val.n = 1 THEN <<"t","r","u","e">> ELSE <<"f","a","l","s","e">>
    [] val.t = "null"      -> <<"n","u","l","l">>
    [] val.t = "undefined" -> <<"u","n","d","e","f","i","n","e","d">>

\* (answers.body)?.[field.key], 818
Lookup(body, key) == IF key \in DOMAIN body THEN body[key] ELSE JUndefined

\* val == null, 819
IsNullish(val) == val.t \in {"null", "undefined"}

---------------------------------------------------------------------------
(* The mapping computation of POST /api/doc/:id/render, index.ts 786-873.  *)
(* A schema body is [groups |-> <<[id, fields |-> <<[key, label, targets]>>]>>]; *)
(* an absent label is the empty string and absent targets the empty list,  *)
(* which the code treats alike (824, 859). parse_json is                   *)
(* [placeholders |-> <<[key, label, tokens]>>], absent tokens the empty    *)
(* list (797-801).                                                         *)

\* 797-801: the captured tokens that are non-blank strings.
rawTokens(entry) ==
  SelectSeq(entry.tokens, LAMBDA token : Len(Trim(token)) > 0)

\* The index of the last entry of the list that set key k (Map.set overwrites).
LastEntry(list, k) == Max({i \in 1..Len(list) : list[i].key = k})

\* 787-808: placeholderMeta, key -> {label, tokens}.
placeholderMeta(parse) ==
  LET list == parse.placeholders
  IN  [k \in {list[i].key : i \in 1..Len(list)} |->
         [label |-> list[LastEntry(list, k)].label,
          tokens |-> rawTokens(list[LastEntry(list, k)])]]

\* 786-808: placeholderLabels, key -> label.
placeholderLabels(parse) ==
  LET list == parse.placeholders
  IN  [k \in {list[i].key : i \in 1..Len(list)} |-> list[LastEntry(list, k)].label]

\* for (const token of seq) set.add(token)
RECURSIVE AddAll(_, _)
AddAll(set, seq) ==
  IF seq = <<>> THEN set ELSE AddAll(SetAdd(set, Head(seq)), Tail(seq))

\* 832-836 and 844-848: every captured token, normalized, into the set.
RECURSIVE expandTokens(_, _)
expandTokens(set, raw) ==
  IF raw = <<>> THEN set
  ELSE expandTokens(AddAll(set, collectPlaceholderTokens(Head(raw))), Tail(raw))

RECURSIVE explicitTargetTokens_TargetOnly(_, _, _)
explicitTargetTokens_TargetOnly(set, targets, meta) ==
  IF targets = <<>> THEN set
  ELSE explicitTargetTokens_TargetOnly(
         AddAll(set, collectPlaceholderTokens(Head(targets))), Tail(targets), meta)

\* 825-839: the explicit targets of a field.
RECURSIVE explicitTargetTokens(_, _, _)
explicitTargetTokens(set, targets, meta) ==
  IF targets = <<>> THEN set
  ELSE LET target == Head(targets)
           own == AddAll(set, collectPlaceholderTokens(target))
           withMeta == IF Trim(target) \in DOMAIN meta
                         THEN expandTokens(own, meta[Trim(target)].tokens)
                         ELSE own
       IN  explicitTargetTokens(IF Trim(target) # <<>> THEN withMeta ELSE set,
                                Tail(targets), meta)

ownKeyTokens_LabelOnly(targetTokens, field, meta) ==
  IF targetTokens = <<>> /\ field.key \in DOMAIN meta /\ meta[field.key].label # <<>>
    THEN AddAll(targetTokens, collectPlaceholderTokens(Bracket(meta[field.key].label)))
    ELSE targetTokens

\* 841-855: the captured tokens of the field's own key, else its label.
ownKeyTokens(targetTokens, field, meta) ==
  IF targetTokens = <<>> /\ field.key \in DOMAIN meta
    THEN LET m == meta[field.key]
             expanded == expandTokens(targetTokens, m.tokens)
         IN  IF expanded = <<>> /\ m.label # <<>>
               THEN AddAll(expanded, collectPlaceholderTokens(Bracket(m.label)))
               ELSE expanded
    ELSE targetTokens

labelTokens_KeyFallback(targetTokens, field, labels) ==
  IF targetTokens = <<>>
    THEN LET placeholderLabel ==
               IF field.key \in DOMAIN labels THEN labels[field.key] ELSE field.label
         IN  AddAll(targetTokens,
                    collectPlaceholderTokens(Bracket(IF placeholderLabel # <<>>
                                                       THEN placeholderLabel ELSE field.key)))
    ELSE targetTokens

\* 857-864: the placeholder label of the key, else the field's label.
labelTokens(targetTokens, field, labels) ==
  IF targetTokens = <<>>
    THEN LET placeholderLabel ==
               IF field.key \in DOMAIN labels THEN labels[field.key] ELSE field.label
         IN  IF placeholderLabel # <<>>
               THEN AddAll(targetTokens, collectPlaceholderTokens(Bracket(placeholderLabel)))
               ELSE targetTokens
    ELSE targetTokens

resolveTokens_AllSteps(field, meta, labels) ==
  LET explicit == explicitTargetTokens(<<>>, field.targets, meta)
  IN  labelTokens(AddAll(explicit, ownKeyTokens(<<>>, field, meta)), field, labels)

\* 823-864: targetTokens of a field.
resolveTokens(field, meta, labels) ==
  labelTokens(
    ownKeyTokens(explicitTargetTokens(<<>>, field.targets, meta), field, meta),
    field, labels)

assignTokens_Overwrite(map, targetTokens, val) ==
  LET new == {t \in Range(targetTokens) : t # <<>>}
  IN  [t \in DOMAIN map \cup new |-> IF t \in new THEN String(val) ELSE map[t]]

\* 866-871: every token not yet in the mapping gets the value. All tokens of
\* one field get the same value, so the order of the loop does not show.
assignTokens(map, targetTokens, val) ==
  LET new == {t \in Range(targetTokens) : t # <<>> /\ t \notin DOMAIN map}
  IN  [t \in DOMAIN map \cup new |-> IF t \in DOMAIN map THEN map[t] ELSE String(val)]

mapField_NullAsText(map, field, body, meta, labels) ==
  IF field.key = <<>> THEN map
  ELSE assignTokens(map, resolveTokens(field, meta, labels), Lookup(body, field.key))

\* 814-872: the body of the inner loop, for one field.
mapField(map, field, body, meta, labels) ==
  IF field.key = <<>> THEN map
  ELSE LET val == Lookup(body, field.key)
       IN  IF IsNullish(val) THEN map
           ELSE assignTokens(map, resolveTokens(field, meta, labels), val)

RECURSIVE mapFields(_, _, _, _, _)
mapFields(map, fields, body, meta, labels) ==
  IF fields = <<>> THEN map
  ELSE mapFields(mapField(map, Head(fields), body, meta, labels),
                 Tail(fields), body, meta, labels)

RECURSIVE mapGroups(_, _, _, _, _)
mapGroups(map, groups, body, meta, labels) ==
  IF groups = <<>> THEN map
  ELSE mapGroups(mapFields(map, Head(groups).fields, body, meta, labels),
                 Tail(groups), body, meta, labels)

EmptyMapping == [t \in {} |-> <<>>]

\* 786-873, run to its end: what render sends as `mapping`.
buildMapping(schemaJson, body, parse) ==
  mapGroups(EmptyMapping, schemaJson.groups, body,
            placeholderMeta(parse), placeholderLabels(parse))

---------------------------------------------------------------------------
(* SpecTok: the normalizer applied to each string of a bounded set. *)

TokChars == {"A", "_", " ", "\t", "[", "]"}

StringsUpTo(n) == UNION {[1..k -> TokChars] : k \in 0..n}

sSignatureBlank == <<"S","i","g","n","a","t","u","r","e"," ","_","_","_","_">>
sEffectiveDate  == <<"[","E","f","f","e","c","t","i","v","e"," ","D","a","t","e","]">>
sDateBlankBr    == <<"[","D","A","T","E","_","_","_","_","]">>
sDateBlank      == <<"D","A","T","E","_","_","_","_">>
sCOMPANY_NAME   == <<"C","O","M","P","A","N","Y","_","N","A","M","E">>
sCompanyNameBr  == <<"[","C","O","M","P","A","N","Y"," ","N","A","M","E","]">>
sSignatureBr    == <<"[","S","i","g","n","a","t","u","r","e","]">>
sDateBr         == <<"[","D","A","T","E","]">>

TokExamples == {sSignatureBlank, sEffectiveDate, sDateBlankBr, sDateBlank, sCOMPANY_NAME}

TokInputs == StringsUpTo(MaxTokLen) \cup TokExamples

InitTok ==
  /\ source \in TokInputs
  /\ tokens = <<>>
  /\ tokPc = "call"
  /\ MapIdle
  /\ GwInit

Collect ==
  /\ tokPc = "call"
  /\ tokens' = collectPlaceholderTokens(source)
  /\ tokPc' = "return"
  /\ UNCHANGED <<source, mapVars, gwVars>>

NextTok == Collect

SpecTok == InitTok /\ [][NextTok]_vars

---------------------------------------------------------------------------
(* SpecMap: the mapping loop over bounded schemas, answers and parse       *)
(* results, one field per step.                                            *)

kCompany     == <<"c","o","m","p","a","n","y","_","n","a","m","e">>
kDate        == <<"d","a","t","e">>
kNotes       == <<"n","o","t","e","s">>
lCompanyName == <<"C","o","m","p","a","n","y"," ","N","a","m","e">>
lDate        == <<"D","a","t","e">>
sDateLabelBr == <<"[","D","a","t","e","]">>
sAcme        == <<"A","c","m","e">>
s2024_01_01  == <<"2","0","2","4","-","0","1","-","0","1">>

pCompany     == [key |-> kCompany, label |-> lCompanyName, tokens |-> <<sCompanyNameBr>>]
pDate        == [key |-> kDate, label |-> lDate, tokens |-> <<sDateBlank>>]
pCompanyBare == [key |-> kCompany, label |-> lCompanyName, tokens |-> <<>>]
pDateBare    == [key |-> kDate, label |-> lDate, tokens |-> << <<" ">> >>]

ParseResults ==
  { [placeholders |-> <<>>],
    [placeholders |-> <<pCompany, pDate>>],
    [placeholders |-> <<pCompanyBare, pDateBare>>],
    [placeholders |-> <<pCompany, pCompanyBare>>] }

fCompany       == [key |-> kCompany, label |-> <<>>, targets |-> <<>>]
fDate          == [key |-> kDate, label |-> lDate, targets |-> <<>>]
fDateToCompany == [key |-> kDate, label |-> lDate, targets |-> <<kCompany>>]
fCompanyLit    == [key |-> kCompany, label |-> <<>>, targets |-> << <<" ", " ">>, sDateLabelBr >>]
fNotes         == [key |-> kNotes, label |-> <<>>, targets |-> <<kNotes>>]
fNoKey         == [key |-> <<>>, label |-> lDate, targets |-> <<sDateLabelBr>>]

fNotesToDate   == [key |-> kNotes, label |-> <<>>, targets |-> << <<" ">> \o kDate \o <<" ">> >>]

FieldPool == {fCompany, fDate, fDateToCompany, fCompanyLit, fNotes, fNoKey, fNotesToDate}

FieldLists == UNION {[1..n -> FieldPool] : n \in 0..MaxFields}

\* The field list fs cut into two groups after its first k fields.
TwoGroups(fs, k) ==
  [groups |-> << [id |-> "g1", fields |-> SubSeq(fs, 1, k)],
                 [id |-> "g2", fields |-> SubSeq(fs, k + 1, Len(fs))] >>]

SchemaBodies ==
  {[groups |-> <<>>]} \cup
  {TwoGroups(fs, k) : <<fs, k>> \in {p \in FieldLists \X (0..MaxFields) : p[2] <= Len(p[1])}}

AnswerBodies ==
  { <<>>,
    (kCompany :> JStr(sAcme)) @@ (kDate :> JStr(s2024_01_01)),
    (kCompany :> JNum(7)) @@ (kDate :> JNull) @@ (kNotes :> JStr(sAcme)),
    (kDate :> JBool(FALSE)) @@ (kNotes :> JNum(12)) }

InitMap ==
  /\ schemaBody \in SchemaBodies
  /\ answersBody \in AnswerBodies
  /\ parseJson \in ParseResults
  /\ mapping = EmptyMapping
  /\ groupIdx = 1
  /\ fieldIdx = 1
  /\ TokIdle
  /\ GwInit

\* One pass of the inner loop (814-872).
MapField ==
  /\ groupIdx >= 1
  /\ groupIdx <= Len(schemaBody.groups)
  /\ fieldIdx <= Len(schemaBody.groups[groupIdx].fields)
  /\ mapping' = mapField(mapping, schemaBody.groups[groupIdx].fields[fieldIdx],
                         answersBody, placeholderMeta(parseJson),
                         placeholderLabels(parseJson))
  /\ fieldIdx' = fieldIdx + 1
  /\ UNCHANGED <<schemaBody, answersBody, parseJson, groupIdx, tokVars, gwVars>>

\* The inner loop ends; the outer loop (812) moves to the next group.
NextGroup ==
  /\ groupIdx >= 1
  /\ groupIdx <= Len(schemaBody.groups)
  /\ fieldIdx > Len(schemaBody.groups[groupIdx].fields)
  /\ groupIdx' = groupIdx + 1
  /\ fieldIdx' = 1
  /\ UNCHANGED <<schemaBody, answersBody, parseJson, mapping, tokVars, gwVars>>

NextMap == MapField \/ NextGroup

SpecMap == InitMap /\ [][NextMap]_vars

---------------------------------------------------------------------------
(* The gateway. A request occupies a slot from its arrival to its response; *)
(* each action is one await of its handler completing, with the code that  *)
(* runs up to the next await. The document microservice and the file       *)
(* system are the environment: each call to them may succeed or fail.      *)

Res(status, error) == [NoRes EXCEPT !.status = status, !.error = error]

\* res.status(...).json(...): the handler is over, the response is out.
Respond(r, res) == [reqs[r] EXCEPT !.pc = "done", !.res = res]

DocRows(id) == {d \in documents : d.id = id}

\* The outcomes of a call to the document microservice: a 2xx response, a
\* non-2xx response (DocServiceError), or fetch throwing.
CollabOutcomes == {"ok", "http", "unreachable"}

\* 294-297, 485-488, 639-642
docServiceMessage(outcome) ==
  IF outcome = "http" THEN "doc-service error (500)" ELSE "doc-service unreachable"

\* What /parse answers for an uploaded file.
UploadParseResults ==
  { [placeholders |-> <<pCompany, pDate>>] }

\* What /to_html answers for it: a string, or anything else, which is stored
\* as null (284-290).
PreviewHtmls == {"null", "html"}

\* 229-246: POST /api/upload arrives; the file is checked, the id drawn.
UploadStart(r) ==
  /\ reqs[r].op = "idle"
  /\ \E file \in {"none", "other", "docx"} :
       \/ /\ file = "none"
          /\ reqs' = [reqs EXCEPT ![r] =
                        [Respond(r, Res(400, "file required")) EXCEPT !.op = "upload"]]
          /\ UNCHANGED nextDoc
       \/ /\ file = "other"
          /\ reqs' = [reqs EXCEPT ![r] =
                        [Respond(r, Res(400, ".docx only")) EXCEPT !.op = "upload"]]
          /\ UNCHANGED nextDoc
       \/ /\ file = "docx"
          /\ nextDoc <= MaxDocs
          /\ reqs' = [reqs EXCEPT ![r] =
                        [IdleReq EXCEPT !.op = "upload", !.id = nextDoc, !.pc = "writeFile"]]
          /\ nextDoc' = nextDoc + 1
  /\ UNCHANGED <<tokVars, mapVars, dbVars, files, histVars>>

\* 248-254: ensureUploadsDir and writeFile.
UploadWriteFile(r) ==
  /\ reqs[r].op = "upload" /\ reqs[r].pc = "writeFile"
  /\ \E ok \in BOOLEAN :
       IF ok
         THEN /\ files' = files \cup {reqs[r].id}
              /\ reqs' = [reqs EXCEPT ![r].pc = "insert"]
         ELSE /\ files' = files
              /\ reqs' = [reqs EXCEPT ![r] =
                            Respond(r, Res(500, "Failed to store uploaded file"))]
  /\ UNCHANGED <<tokVars, mapVars, dbVars, nextDoc, histVars>>

UploadUndo_KeepFile(r, res, outcome) ==
  /\ UNCHANGED <<files, unlinkFailed>>
  /\ reqs' = [reqs EXCEPT ![r] = [Respond(r, res) EXCEPT !.collab = outcome]]

\* 327-330 and 292-293: ROLLBACK, then unlink(filePath).catch(() => {}): the
\* file goes unless unlink fails, which the handler ignores.
UploadUndo(r, res, outcome) ==
  /\ \E unlinked \in BOOLEAN :
       IF unlinked
         THEN files' = files \ {reqs[r].id} /\ UNCHANGED unlinkFailed
         ELSE files' = files /\ unlinkFailed' = unlinkFailed \cup {reqs[r].id}
  /\ reqs' = [reqs EXCEPT ![r] = [Respond(r, res) EXCEPT !.collab = outcome]]

\* 259-274: connect, BEGIN, INSERT INTO documents; the row stays invisible to
\* other connections until COMMIT. pool.connect() (259) is outside the try:
\* when it rejects, the handler's promise rejects, no response is sent and
\* nothing is undone.
UploadInsert(r) ==
  /\ reqs[r].op = "upload" /\ reqs[r].pc = "insert"
  /\ \E outcome \in {"ok", "failed", "noConnection"} :
       CASE outcome = "ok" ->
              /\ reqs' = [reqs EXCEPT ![r].pc = "parse"]
              /\ UNCHANGED <<files, unlinkFailed>>
         [] outcome = "failed" ->
              UploadUndo(r, Res(500, "Failed to persist document"), reqs[r].collab)
         [] outcome = "noConnection" ->
              /\ reqs' = [reqs EXCEPT ![r] = Respond(r, [NoRes EXCEPT !.info = "rejected"])]
              /\ UNCHANGED <<files, unlinkFailed>>
  /\ UNCHANGED <<tokVars, mapVars, dbVars, nextDoc, docHist>>

\* 279-283 and 291-300: the /parse call.
UploadParse(r) ==
  /\ reqs[r].op = "upload" /\ reqs[r].pc = "parse"
  /\ \E outcome \in CollabOutcomes :
       IF outcome = "ok"
         THEN /\ \E parseResult \in UploadParseResults :
                   reqs' = [reqs EXCEPT ![r].pc = "toHtml", ![r].json = <<parseResult>>,
                                       ![r].collab = "ok"]
              /\ UNCHANGED <<files, unlinkFailed>>
         ELSE UploadUndo(r, Res(502, docServiceMessage(outcome)), outcome)
  /\ UNCHANGED <<tokVars, mapVars, dbVars, nextDoc, docHist>>

\* 284-290 and 291-300: the /to_html call; a non-string html is stored as null.
UploadToHtml(r) ==
  /\ reqs[r].op = "upload" /\ reqs[r].pc = "toHtml"
  /\ \E outcome \in CollabOutcomes :
       IF outcome = "ok"
         THEN /\ \E previewHtml \in PreviewHtmls :
                   reqs' = [reqs EXCEPT ![r].pc = "commit",
                              ![r].doc = <<[id |-> reqs[r].id, storage_url |-> reqs[r].id,
                                            parse_json |-> reqs[r].json[1],
                                            preview_html |-> previewHtml]>>]
              /\ UNCHANGED <<files, unlinkFailed>>
         ELSE UploadUndo(r, Res(502, docServiceMessage(outcome)), outcome)
  /\ UNCHANGED <<tokVars, mapVars, dbVars, nextDoc, docHist>>

\* 314-323: one placeholders row per entry with a key and a label; on a
\* conflict the later label replaces the earlier.
placeholderRows(id, parse) ==
  LET list == SelectSeq(parse.placeholders, LAMBDA p : p.key # <<>> /\ p.label # <<>>)
  IN  {[document_id |-> id, key |-> k, label |-> list[LastEntry(list, k)].label] :
         k \in {list[i].key : i \in 1..Len(list)}}

\* 302-335: UPDATE documents, the placeholders, COMMIT; or the transaction
\* fails and is rolled back.
UploadCommit(r) ==
  /\ reqs[r].op = "upload" /\ reqs[r].pc = "commit"
  /\ \E ok \in BOOLEAN :
       IF ok
         THEN /\ documents' = documents \cup {reqs[r].doc[1]}
              /\ placeholders' = placeholders \cup
                                   placeholderRows(reqs[r].id, reqs[r].doc[1].parse_json)
              /\ reqs' = [reqs EXCEPT ![r] = Respond(r, Res(200, ""))]
              /\ UNCHANGED <<files, unlinkFailed>>
         ELSE /\ UploadUndo(r, Res(500, "Failed to persist document"), reqs[r].collab)
              /\ UNCHANGED <<documents, placeholders>>
  /\ UNCHANGED <<tokVars, mapVars, schemas, answers, locked, now, nextUuid, nextDoc, docHist>>

\* 385-387: DELETE /api/doc/:id arrives.
DeleteStart(r) ==
  /\ reqs[r].op = "idle"
  /\ \E id \in DocIds :
       reqs' = [reqs EXCEPT ![r] = [IdleReq EXCEPT !.op = "delete", !.id = id, !.pc = "select"]]
  /\ UNCHANGED <<tokVars, mapVars, dbVars, files, nextDoc, histVars>>

\* 390-405: BEGIN and SELECT ... FOR UPDATE, which waits while another
\* transaction holds the row.
DeleteSelect(r) ==
  /\ reqs[r].op = "delete" /\ reqs[r].pc = "select"
  /\ reqs[r].id \notin locked
  /\ IF DocRows(reqs[r].id) = {}
       THEN /\ reqs' = [reqs EXCEPT ![r] =
                          Respond(r, [Res(200, "") EXCEPT !.info = "deleted: false"])]
            /\ UNCHANGED locked
       ELSE /\ reqs' = [reqs EXCEPT ![r].pc = "delete",
                          ![r].doc = <<CHOOSE d \in DocRows(reqs[r].id) : TRUE>>]
            /\ locked' = locked \cup {reqs[r].id}
  /\ UNCHANGED <<tokVars, mapVars, documents, placeholders, schemas, answers, now, nextUuid, files,
                 nextDoc, histVars>>

DeleteCommit_UnlinkFirst(r) ==
  /\ reqs[r].op = "delete" /\ reqs[r].pc = "delete"
  /\ files' = files \ {reqs[r].doc[1].storage_url}
  /\ reqs' = [reqs EXCEPT ![r] = Respond(r, Res(500, "Failed to delete document"))]
  /\ locked' = locked \ {reqs[r].id}
  /\ UNCHANGED <<tokVars, mapVars, documents, placeholders, schemas, answers, now, nextUuid,
                 nextDoc, histVars>>

DeleteCommit_NoRollback(r) ==
  /\ reqs[r].op = "delete" /\ reqs[r].pc = "delete"
  /\ \E ok \in BOOLEAN :
       /\ schemas' = {s \in schemas : s.doc_id # reqs[r].id}
       /\ IF ok
            THEN /\ documents' = documents \ DocRows(reqs[r].id)
                 /\ placeholders' = {p \in placeholders : p.document_id # reqs[r].id}
                 /\ answers' = {a \in answers : a.doc_id # reqs[r].id}
                 /\ reqs' = [reqs EXCEPT ![r].pc = "unlink"]
                 /\ prevSchema' = [prevSchema EXCEPT ![reqs[r].id] = <<>>]
                 /\ firstAnswer' = [firstAnswer EXCEPT ![reqs[r].id] = <<>>]
                 /\ prevAnswer' = [prevAnswer EXCEPT ![reqs[r].id] = <<>>]
                 /\ deleted' = deleted \cup {reqs[r].id}
            ELSE /\ UNCHANGED <<documents, placeholders, answers, docHist>>
                 /\ reqs' = [reqs EXCEPT ![r] =
                               Respond(r, Res(500, "Failed to delete document"))]
  /\ locked' = locked \ {reqs[r].id}
  /\ UNCHANGED <<tokVars, mapVars, now, nextUuid, files, nextDoc, unlinkFailed>>

\* The history of a document ends with the document.
\* 407-408 and 421-424: DELETE FROM documents (the rows of placeholders,
\* schemas and answers of the document go with it, ON DELETE CASCADE) and
\* COMMIT; or the transaction fails and is rolled back.
DeleteCommit(r) ==
  /\ reqs[r].op = "delete" /\ reqs[r].pc = "delete"
  /\ \E ok \in BOOLEAN :
       IF ok
         THEN /\ documents' = documents \ DocRows(reqs[r].id)
              /\ placeholders' = {p \in placeholders : p.document_id # reqs[r].id}
              /\ schemas' = {s \in schemas : s.doc_id # reqs[r].id}
              /\ answers' = {a \in answers : a.doc_id # reqs[r].id}
              /\ reqs' = [reqs EXCEPT ![r].pc = "unlink"]
              /\ prevSchema' = [prevSchema EXCEPT ![reqs[r].id] = <<>>]
              /\ firstAnswer' = [firstAnswer EXCEPT ![reqs[r].id] = <<>>]
              /\ prevAnswer' = [prevAnswer EXCEPT ![reqs[r].id] = <<>>]
              /\ deleted' = deleted \cup {reqs[r].id}
         ELSE /\ UNCHANGED <<documents, placeholders, schemas, answers, docHist>>
              /\ reqs' = [reqs EXCEPT ![r] =
                            Respond(r, Res(500, "Failed to delete document"))]
  /\ locked' = locked \ {reqs[r].id}
  /\ UNCHANGED <<tokVars, mapVars, now, nextUuid, files, nextDoc, unlinkFailed>>

\* 410-420: unlink(doc.storage_url); a failure is logged or ignored.
DeleteUnlink(r) ==
  /\ reqs[r].op = "delete" /\ reqs[r].pc = "unlink"
  /\ \E unlinked \in BOOLEAN :
       LET path == reqs[r].doc[1].storage_url
       IN  IF unlinked \/ path \notin files
             THEN files' = files \ {path} /\ UNCHANGED unlinkFailed
             ELSE files' = files /\ unlinkFailed' = unlinkFailed \cup {path}
  /\ reqs' = [reqs EXCEPT ![r] = Respond(r, Res(200, ""))]
  /\ UNCHANGED <<tokVars, mapVars, dbVars, nextDoc, docHist>>

---------------------------------------------------------------------------
(* fetchDocument, index.ts 508-549: the documents row, then its bytes. *)

UsesFetchDocument(op) == op \in {"postSchema", "postAnswer", "render", "getSchema", "getAnswer"}

\* 573, 603, 670, 722, 765: the 404 of each handler.
notFound(op) == IF op = "render" THEN "doc_not_found" ELSE "Document not found"

\* The await that follows fetchDocument in each handler.
afterFetch(op) ==
  CASE op \in {"render", "getSchema"} -> "schema"
    [] op = "getAnswer" -> "answers"
    [] OTHER -> "existing"

\* 509-528: SELECT ... FROM documents WHERE id = $1.
FetchDocQuery(r) ==
  /\ UsesFetchDocument(reqs[r].op) /\ reqs[r].pc = "fetchDoc"
  /\ IF DocRows(reqs[r].id) = {}
       THEN reqs' = [reqs EXCEPT ![r] = Respond(r, Res(404, notFound(reqs[r].op)))]
       ELSE \E row \in DocRows(reqs[r].id) :
              reqs' = [reqs EXCEPT ![r].pc = "readFile",
                         ![r].doc = <<[id |-> row.id, storage_url |-> row.storage_url,
                                       parse_json |-> row.parse_json, bytes_b64 |-> FALSE]>>]
  /\ UNCHANGED <<tokVars, mapVars, dbVars, files, nextDoc, histVars>>

\* 530-548: readFile(storagePath); a failure, the file missing or the read
\* failing, is logged and leaves bytes_b64 null. Only render looks at
\* bytes_b64 (875), so the read of a file that is there fails for render only.
FetchDocRead(r) ==
  /\ UsesFetchDocument(reqs[r].op) /\ reqs[r].pc = "readFile"
  /\ \E read \in IF reqs[r].op = "render" THEN BOOLEAN ELSE {TRUE} :
       reqs' = [reqs EXCEPT ![r].pc = afterFetch(reqs[r].op),
                  ![r].doc[1].bytes_b64 = (read /\ reqs[r].doc[1].storage_url \in files)]
  /\ UNCHANGED <<tokVars, mapVars, dbVars, files, nextDoc, histVars>>

LatestSchemas_None(id) == {}

LatestSchemas_Oldest(id) ==
  {s \in schemas : s.doc_id = id /\ \A t \in schemas : t.doc_id = id => s.created_at <= t.created_at}

\* SELECT ... FROM schemas WHERE doc_id = $1 ORDER BY created_at DESC LIMIT 1:
\* the rows the query may return as rows[0] (none when there is no row).
LatestSchemas(id) ==
  {s \in schemas : s.doc_id = id /\ \A t \in schemas : t.doc_id = id => t.created_at <= s.created_at}

\* SELECT ... FROM answers WHERE doc_id = $1 ORDER BY updated_at DESC LIMIT 1.
LatestAnswers(id) ==
  {a \in answers : a.doc_id = id /\ \A b \in answers : b.doc_id = id => b.updated_at <= a.updated_at}

---------------------------------------------------------------------------
(* POST /api/doc/:id/schema, index.ts 598-664. *)

\* 166: AI_STUDIO_MODEL is not set.
defaultSchemaModel == "null"

\* What /schema answers: a SchemaPayload, with or without model_name.
CollabSchemas ==
  { [model_name |-> "gemini-2.5-flash", groups |-> TwoGroups(<<fCompany, fDate>>, 1).groups],
    [model_name |-> "null", groups |-> TwoGroups(<<fDateToCompany, fCompany, fNotes>>, 2).groups] }

\* 551-567: the body's members, and _meta from the row's columns.
formatSchemaPayload(row) ==
  [groups |-> row.body.groups, model_name |-> row.body.model_name,
   _meta |-> [id |-> row.id, doc_id |-> row.doc_id, model_name |-> row.model_name,
              created_at |-> row.created_at]]

PostSchemaStart(r) ==
  /\ reqs[r].op = "idle"
  /\ \E id \in DocIds :
       reqs' = [reqs EXCEPT ![r] =
                  [IdleReq EXCEPT !.op = "postSchema", !.id = id, !.pc = "fetchDoc"]]
  /\ UNCHANGED <<tokVars, mapVars, dbVars, files, nextDoc, histVars>>

\* 606-627: the latest schema row is returned as it is; without one the
\* collaborator's /schema is called.
PostSchemaExisting(r) ==
  /\ reqs[r].op = "postSchema" /\ reqs[r].pc = "existing"
  /\ IF LatestSchemas(reqs[r].id) # {}
       THEN \E row \in LatestSchemas(reqs[r].id) :
              reqs' = [reqs EXCEPT ![r] =
                         Respond(r, [Res(200, "") EXCEPT !.rows = <<formatSchemaPayload(row)>>])]
       ELSE reqs' = [reqs EXCEPT ![r].pc = "collab", ![r].calls = reqs[r].calls + 1]
  /\ UNCHANGED <<tokVars, mapVars, dbVars, files, nextDoc, histVars>>

PostSchemaCollab_InsertAnyway(r) ==
  /\ reqs[r].op = "postSchema" /\ reqs[r].pc = "collab"
  /\ \E outcome \in CollabOutcomes, schemaJson \in CollabSchemas :
       reqs' = [reqs EXCEPT ![r].pc = "insert", ![r].json = <<schemaJson>>,
                            ![r].collab = outcome]
  /\ UNCHANGED <<tokVars, mapVars, dbVars, files, nextDoc, histVars>>

\* 629-645: the answer of /schema.
PostSchemaCollab(r) ==
  /\ reqs[r].op = "postSchema" /\ reqs[r].pc = "collab"
  /\ \E outcome \in CollabOutcomes :
       IF outcome = "ok"
         THEN \E schemaJson \in CollabSchemas :
                reqs' = [reqs EXCEPT ![r].pc = "insert", ![r].json = <<schemaJson>>,
                                     ![r].collab = "ok"]
         ELSE reqs' = [reqs EXCEPT ![r] = [Respond(r, Res(502, docServiceMessage(outcome)))
                                             EXCEPT !.collab = outcome]]
  /\ UNCHANGED <<tokVars, mapVars, dbVars, files, nextDoc, histVars>>

\* 647-650
inferredModel(schemaJson) ==
  IF schemaJson.model_name # "null" THEN schemaJson.model_name ELSE defaultSchemaModel

\* 652-663: INSERT INTO schemas ... RETURNING; the insert waits while a delete
\* holds the documents row, and fails on the foreign key once the row is gone.
PostSchemaInsert(r) ==
  /\ reqs[r].op = "postSchema" /\ reqs[r].pc = "insert"
  /\ reqs[r].id \notin locked
  /\ IF DocRows(reqs[r].id) = {}
       THEN /\ reqs' = [reqs EXCEPT ![r] = Respond(r, Res(500, "Failed to generate schema"))]
            /\ UNCHANGED <<schemas, now, nextUuid>>
       ELSE /\ now < MaxClock
            /\ LET row == [id |-> nextUuid, doc_id |-> reqs[r].id,
                           model_name |-> inferredModel(reqs[r].json[1]),
                           body |-> reqs[r].json[1],
                           created_at |-> now + 1]
               IN  /\ schemas' = schemas \cup {row}
                   /\ reqs' = [reqs EXCEPT ![r] =
                                 Respond(r, [Res(201, "") EXCEPT
                                               !.rows = <<formatSchemaPayload(row)>>])]
            /\ now' = now + 1
            /\ nextUuid' = nextUuid + 1
  /\ UNCHANGED <<tokVars, mapVars, documents, placeholders, answers, locked, files, nextDoc, histVars>>

---------------------------------------------------------------------------
(* POST /api/doc/:id/answer, index.ts 701-758. *)

\* req.body: its body is absent, null, an array, a scalar or an object map;
\* its schema_id is a string or anything else, which 716-717 turn into null.
\* The answer maps a client submits: two of the bodies above, each without a
\* key the other has.
SubmittedBodies == {b \in AnswerBodies : kDate \in DOMAIN b /\ Cardinality(DOMAIN b) = 2}

AnswerPayloads ==
  {[kind |-> k, body |-> <<>>, schema_id |-> <<>>] : k \in {"missing", "null", "array", "scalar"}}
  \cup {[kind |-> "object", body |-> b, schema_id |-> sid] :
          b \in SubmittedBodies, sid \in {<<>>, <<0>>} \cup {<<s.id>> : s \in schemas}}

\* The payloads submitted for document id: a schema_id, when one is given, is
\* the unknown id 0 or the id of a schema of that document (the id the client
\* got from POST or GET /api/doc/:id/schema).
OwnPayloads(id) ==
  {p \in AnswerPayloads :
     p.schema_id \in {<<>>, <<0>>} \cup {<<s.id>> : s \in {t \in schemas : t.doc_id = id}}}

PostAnswerStart_LookupFirst(r) ==
  /\ reqs[r].op = "idle"
  /\ \E id \in DocIds : \E payload \in OwnPayloads(id) :
       reqs' = [reqs EXCEPT ![r] =
                  [IdleReq EXCEPT !.op = "postAnswer", !.id = id, !.at = now,
                                  !.payload = payload, !.pc = "fetchDoc"]]
  /\ UNCHANGED <<tokVars, mapVars, dbVars, files, nextDoc, histVars>>

\* 701-719
PostAnswerStart(r) ==
  /\ reqs[r].op = "idle"
  /\ \E id \in DocIds : \E payload \in OwnPayloads(id) :
       LET req == [IdleReq EXCEPT !.op = "postAnswer", !.id = id, !.at = now,
                                  !.payload = payload]
       IN  reqs' = [reqs EXCEPT ![r] =
             IF payload.kind \in {"missing", "null"}
               THEN [req EXCEPT !.pc = "done", !.res = Res(400, "body map required")]
             ELSE IF payload.kind \in {"array", "scalar"}
               THEN [req EXCEPT !.pc = "done", !.res = Res(400, "body must be an object map")]
             ELSE [req EXCEPT !.pc = "fetchDoc"]]
  /\ UNCHANGED <<tokVars, mapVars, dbVars, files, nextDoc, histVars>>

\* 725-732: SELECT id FROM answers ... ORDER BY updated_at DESC LIMIT 1.
PostAnswerExisting(r) ==
  /\ reqs[r].op = "postAnswer" /\ reqs[r].pc = "existing"
  /\ IF LatestAnswers(reqs[r].id) = {}
       THEN reqs' = [reqs EXCEPT ![r].pc = "write", ![r].answers = <<>>]
       ELSE \E row \in LatestAnswers(reqs[r].id) :
              reqs' = [reqs EXCEPT ![r].pc = "write", ![r].answers = <<row.id>>]
  /\ UNCHANGED <<tokVars, mapVars, dbVars, files, nextDoc, histVars>>

\* The foreign key answers.schema_id -> schemas.id, 003_answers.sql.
schemaIdValid(sid) == sid = <<>> \/ \E s \in schemas : s.id = sid[1]

upsertBody_Merge(old, new) == new @@ old

\* SET body = $1::jsonb, 737
upsertBody(old, new) == new

coalesce_Submitted(new, old) == new

\* schema_id = COALESCE($2::uuid, schema_id), 738
coalesce(new, old) == IF new # <<>> THEN new ELSE old

\* 734-744: UPDATE answers ... WHERE id = $3 RETURNING, answered with 200.
PostAnswerUpdate(r) ==
  /\ reqs[r].op = "postAnswer" /\ reqs[r].pc = "write" /\ reqs[r].answers # <<>>
  /\ IF ~schemaIdValid(reqs[r].payload.schema_id)
       THEN /\ reqs' = [reqs EXCEPT ![r] = Respond(r, Res(500, "Failed to persist answers"))]
            /\ UNCHANGED <<answers, now>>
       ELSE LET hit == {a \in answers : a.id = reqs[r].answers[1]}
            IN  IF hit = {}
                  THEN /\ reqs' = [reqs EXCEPT ![r] = Respond(r, Res(200, ""))]
                       /\ UNCHANGED <<answers, now>>
                  ELSE /\ now < MaxClock
                       /\ \E old \in hit :
                            LET row == [old EXCEPT
                                          !.body = upsertBody(old.body, reqs[r].payload.body),
                                          !.schema_id = coalesce(reqs[r].payload.schema_id,
                                                                 old.schema_id),
                                          !.updated_at = now + 1]
                            IN  /\ answers' = (answers \ {old}) \cup {row}
                                /\ reqs' = [reqs EXCEPT ![r] =
                                              Respond(r, [Res(200, "") EXCEPT !.rows = <<row>>])]
                       /\ now' = now + 1
  /\ UNCHANGED <<tokVars, mapVars, documents, placeholders, schemas, locked, nextUuid, files, nextDoc, histVars>>

\* 746-752: INSERT INTO answers ... RETURNING, answered with 201; the insert
\* waits while a delete holds the documents row, and fails on a foreign key.
PostAnswerInsert(r) ==
  /\ reqs[r].op = "postAnswer" /\ reqs[r].pc = "write" /\ reqs[r].answers = <<>>
  /\ reqs[r].id \notin locked
  /\ IF DocRows(reqs[r].id) = {} \/ ~schemaIdValid(reqs[r].payload.schema_id)
       THEN /\ reqs' = [reqs EXCEPT ![r] = Respond(r, Res(500, "Failed to persist answers"))]
            /\ UNCHANGED <<answers, now, nextUuid>>
       ELSE /\ now < MaxClock
            /\ LET row == [id |-> nextUuid, doc_id |-> reqs[r].id,
                           schema_id |-> reqs[r].payload.schema_id,
                           body |-> reqs[r].payload.body,
                           created_at |-> now + 1, updated_at |-> now + 1]
               IN  /\ answers' = answers \cup {row}
                   /\ reqs' = [reqs EXCEPT ![r] =
                                 Respond(r, [Res(201, "") EXCEPT !.rows = <<row>>])]
            /\ now' = now + 1
            /\ nextUuid' = nextUuid + 1
  /\ UNCHANGED <<tokVars, mapVars, documents, placeholders, schemas, locked, files, nextDoc, histVars>>

---------------------------------------------------------------------------
(* POST /api/doc/:id/render, index.ts 760-907. *)

RenderStart(r) ==
  /\ reqs[r].op = "idle"
  /\ \E id \in DocIds :
       reqs' = [reqs EXCEPT ![r] = [IdleReq EXCEPT !.op = "render", !.id = id, !.pc = "fetchDoc"]]
  /\ UNCHANGED <<tokVars, mapVars, dbVars, files, nextDoc, histVars>>

\* 767-771: the latest schema row, if any.
RenderSchema(r) ==
  /\ reqs[r].op = "render" /\ reqs[r].pc = "schema"
  /\ IF LatestSchemas(reqs[r].id) = {}
       THEN reqs' = [reqs EXCEPT ![r].pc = "answers", ![r].schema = <<>>]
       ELSE \E row \in LatestSchemas(reqs[r].id) :
              reqs' = [reqs EXCEPT ![r].pc = "answers", ![r].schema = <<row>>]
  /\ UNCHANGED <<tokVars, mapVars, dbVars, files, nextDoc, histVars>>

needs_Both(schema, answersRow) == <<"schema", "answers">>

\* [!schema ? "schema" : null, !answers ? "answers" : null].filter(Boolean), 782
needs(schema, answersRow) ==
  (IF schema = <<>> THEN <<"schema">> ELSE <<>>) \o
  (IF answersRow = <<>> THEN <<"answers">> ELSE <<>>)

detail_Whole(errorText) == errorText

\* errorText.slice(0, 400), 894
detail(errorText) == SubSeq(errorText, 1, Min({DetailMax, Len(errorText)}))

RenderAnswers_BytesFirst(r) ==
  /\ reqs[r].op = "render" /\ reqs[r].pc = "answers"
  /\ \E answersRow \in IF LatestAnswers(reqs[r].id) = {} THEN {<<>>}
                       ELSE {<<a>> : a \in LatestAnswers(reqs[r].id)} :
       LET req    == [reqs[r] EXCEPT !.answers = answersRow]
           schema == reqs[r].schema
       IN  reqs' = [reqs EXCEPT ![r] =
             IF ~reqs[r].doc[1].bytes_b64
               THEN [req EXCEPT !.pc = "done", !.res = Res(500, "doc_bytes_missing")]
             ELSE IF schema = <<>> \/ answersRow = <<>>
               THEN [req EXCEPT !.pc = "done",
                       !.res = [Res(409, "incomplete") EXCEPT !.needs = needs(schema, answersRow)]]
             ELSE [req EXCEPT !.pc = "collab", !.calls = reqs[r].calls + 1,
                     !.sent = <<buildMapping(schema[1].body, answersRow[1].body,
                                             reqs[r].doc[1].parse_json)>>]]
  /\ UNCHANGED <<tokVars, mapVars, dbVars, files, nextDoc, histVars>>

\* 773-890: the latest answers row, then without an await the 409, the
\* mapping, the check of the bytes and the request to /render.
RenderAnswers(r) ==
  /\ reqs[r].op = "render" /\ reqs[r].pc = "answers"
  /\ \E answersRow \in IF LatestAnswers(reqs[r].id) = {} THEN {<<>>}
                       ELSE {<<a>> : a \in LatestAnswers(reqs[r].id)} :
       LET req    == [reqs[r] EXCEPT !.answers = answersRow]
           schema == reqs[r].schema
       IN  reqs' = [reqs EXCEPT ![r] =
             IF schema = <<>> \/ answersRow = <<>>
               THEN [req EXCEPT !.pc = "done",
                       !.res = [Res(409, "incomplete") EXCEPT !.needs = needs(schema, answersRow)]]
             ELSE IF ~reqs[r].doc[1].bytes_b64
               THEN [req EXCEPT !.pc = "done", !.res = Res(500, "doc_bytes_missing")]
             ELSE [req EXCEPT !.pc = "collab", !.calls = reqs[r].calls + 1,
                     !.sent = <<buildMapping(schema[1].body, answersRow[1].body,
                                             reqs[r].doc[1].parse_json)>>]]
  /\ UNCHANGED <<tokVars, mapVars, dbVars, files, nextDoc, histVars>>

\* The bodies a failing /render answers with.
ErrorTexts ==
  {<<"b", "a", "d">>, [i \in 1..DetailMax |-> "x"], [i \in 1..(DetailMax + 1) |-> "x"]}

RenderCollab_StoresOutput(r) ==
  /\ reqs[r].op = "render" /\ reqs[r].pc = "collab"
  /\ reqs' = [reqs EXCEPT ![r] = [Respond(r, [Res(200, "") EXCEPT !.info = "docx"])
                                   EXCEPT !.json = <<[ok |-> TRUE, text |-> <<>>]>>,
                                          !.collab = "ok"]]
  /\ files' = files \cup {0}
  /\ UNCHANGED <<tokVars, mapVars, dbVars, nextDoc, histVars>>

\* 886-906: the answer of /render. A failure of fetch itself is thrown into
\* the handler's catch.
RenderCollab(r) ==
  /\ reqs[r].op = "render" /\ reqs[r].pc = "collab"
  /\ \E outcome \in CollabOutcomes :
       CASE outcome = "ok" ->
              reqs' = [reqs EXCEPT ![r] = [Respond(r, [Res(200, "") EXCEPT !.info = "docx"])
                                             EXCEPT !.json = <<[ok |-> TRUE, text |-> <<>>]>>,
                                                    !.collab = "ok"]]
         [] outcome = "http" ->
              \E errorText \in ErrorTexts :
                reqs' = [reqs EXCEPT ![r] =
                           [Respond(r, [Res(502, "render_failed") EXCEPT
                                          !.detail = detail(errorText)])
                              EXCEPT !.json = <<[ok |-> FALSE, text |-> errorText]>>,
                                     !.collab = "http"]]
         [] outcome = "unreachable" ->
              reqs' = [reqs EXCEPT ![r] = [Respond(r, Res(500, "server_error"))
                                             EXCEPT !.collab = "unreachable"]]
  /\ UNCHANGED <<tokVars, mapVars, dbVars, files, nextDoc, histVars>>

---------------------------------------------------------------------------
(* The reads: GET /api/doc/:id (338-383), GET /api/doc/:id/preview        *)
(* (430-496), GET /api/doc/:id/schema (569-596), GET /api/doc/:id/answer  *)
(* (666-699).                                                              *)

GetDocStart(r) ==
  /\ reqs[r].op = "idle"
  /\ \E id \in DocIds :
       reqs' = [reqs EXCEPT ![r] = [IdleReq EXCEPT !.op = "getDoc", !.id = id, !.pc = "query"]]
  /\ UNCHANGED <<tokVars, mapVars, dbVars, files, nextDoc, histVars>>

\* 341-382: the row's columns, the number of placeholders, hasPreview.
GetDocQuery(r) ==
  /\ reqs[r].op = "getDoc" /\ reqs[r].pc = "query"
  /\ IF DocRows(reqs[r].id) = {}
       THEN reqs' = [reqs EXCEPT ![r] = Respond(r, Res(404, "Document not found"))]
       ELSE \E row \in DocRows(reqs[r].id) :
              reqs' = [reqs EXCEPT ![r] =
                         Respond(r, [Res(200, "") EXCEPT !.rows =
                           <<[id |-> row.id, storageUrl |-> row.storage_url,
                              placeholderCount |-> Len(row.parse_json.placeholders),
                              hasPreview |-> (row.preview_html # "null")]>>])]
  /\ UNCHANGED <<tokVars, mapVars, dbVars, files, nextDoc, histVars>>

PreviewStart(r) ==
  /\ reqs[r].op = "idle"
  /\ \E id \in DocIds :
       reqs' = [reqs EXCEPT ![r] = [IdleReq EXCEPT !.op = "preview", !.id = id, !.pc = "query"]]
  /\ UNCHANGED <<tokVars, mapVars, dbVars, files, nextDoc, histVars>>

\* 434-456: the row; the cached html is answered as it is.
PreviewQuery(r) ==
  /\ reqs[r].op = "preview" /\ reqs[r].pc = "query"
  /\ IF DocRows(reqs[r].id) = {}
       THEN reqs' = [reqs EXCEPT ![r] = Respond(r, Res(404, "Document not found"))]
       ELSE \E row \in DocRows(reqs[r].id) :
              reqs' = [reqs EXCEPT ![r] =
                         IF row.preview_html # "null"
                           THEN Respond(r, [Res(200, "") EXCEPT !.info = row.preview_html])
                           ELSE [reqs[r] EXCEPT !.pc = "readFile", !.doc = <<row>>]]
  /\ UNCHANGED <<tokVars, mapVars, dbVars, files, nextDoc, histVars>>

\* 458-464: readFile(row.storage_url), then the request to /to_html.
PreviewRead(r) ==
  /\ reqs[r].op = "preview" /\ reqs[r].pc = "readFile"
  /\ reqs' = [reqs EXCEPT ![r] =
                IF reqs[r].doc[1].storage_url \in files
                  THEN [reqs[r] EXCEPT !.pc = "collab", !.calls = reqs[r].calls + 1]
                  ELSE Respond(r, Res(500, "Failed to read stored document"))]
  /\ UNCHANGED <<tokVars, mapVars, dbVars, files, nextDoc, histVars>>

\* 466-475 and 484-491: the answer of /to_html; an html that is no string or
\* is empty is answered with 502.
PreviewCollab(r) ==
  /\ reqs[r].op = "preview" /\ reqs[r].pc = "collab"
  /\ \E outcome \in CollabOutcomes :
       IF outcome = "ok"
         THEN \E html \in {"null", "html"} :
                reqs' = [reqs EXCEPT ![r] =
                           IF html = "null"
                             THEN [Respond(r, Res(502, "Invalid preview response"))
                                     EXCEPT !.collab = "ok"]
                             ELSE [reqs[r] EXCEPT !.pc = "update", !.collab = "ok"]]
         ELSE reqs' = [reqs EXCEPT ![r] =
                         [Respond(r, Res(502, docServiceMessage(outcome)))
                            EXCEPT !.collab = outcome]]
  /\ UNCHANGED <<tokVars, mapVars, dbVars, files, nextDoc, histVars>>

\* 477-482: UPDATE documents SET preview_html = $1 WHERE id = $2, which waits
\* while a delete holds the row and changes nothing once the row is gone.
PreviewUpdate(r) ==
  /\ reqs[r].op = "preview" /\ reqs[r].pc = "update"
  /\ reqs[r].id \notin locked
  /\ documents' = {IF d.id = reqs[r].id THEN [d EXCEPT !.preview_html = "html"] ELSE d :
                     d \in documents}
  /\ reqs' = [reqs EXCEPT ![r] = Respond(r, [Res(200, "") EXCEPT !.info = "html"])]
  /\ UNCHANGED <<tokVars, mapVars, placeholders, schemas, answers, locked, now, nextUuid,
                 files, nextDoc, histVars>>

GetSchemaStart(r) ==
  /\ reqs[r].op = "idle"
  /\ \E id \in DocIds :
       reqs' = [reqs EXCEPT ![r] =
                  [IdleReq EXCEPT !.op = "getSchema", !.id = id, !.pc = "fetchDoc"]]
  /\ UNCHANGED <<tokVars, mapVars, dbVars, files, nextDoc, histVars>>

\* 577-591: the latest schema row, or 404 {not_found: true}.
GetSchemaQuery(r) ==
  /\ reqs[r].op = "getSchema" /\ reqs[r].pc = "schema"
  /\ IF LatestSchemas(reqs[r].id) = {}
       THEN reqs' = [reqs EXCEPT ![r] = Respond(r, [Res(404, "") EXCEPT !.info = "not_found"])]
       ELSE \E row \in LatestSchemas(reqs[r].id) :
              reqs' = [reqs EXCEPT ![r] =
                         Respond(r, [Res(200, "") EXCEPT !.rows = <<formatSchemaPayload(row)>>])]
  /\ UNCHANGED <<tokVars, mapVars, dbVars, files, nextDoc, histVars>>

GetAnswerStart(r) ==
  /\ reqs[r].op = "idle"
  /\ \E id \in DocIds :
       reqs' = [reqs EXCEPT ![r] =
                  [IdleReq EXCEPT !.op = "getAnswer", !.id = id, !.pc = "fetchDoc"]]
  /\ UNCHANGED <<tokVars, mapVars, dbVars, files, nextDoc, histVars>>

\* 674-694: the latest answers row, or {body: {}}.
GetAnswerQuery(r) ==
  /\ reqs[r].op = "getAnswer" /\ reqs[r].pc = "answers"
  /\ IF LatestAnswers(reqs[r].id) = {}
       THEN reqs' = [reqs EXCEPT ![r] = Respond(r, [Res(200, "") EXCEPT !.info = "body: {}"])]
       ELSE \E row \in LatestAnswers(reqs[r].id) :
              reqs' = [reqs EXCEPT ![r] = Respond(r, [Res(200, "") EXCEPT !.rows = <<row>>])]
  /\ UNCHANGED <<tokVars, mapVars, dbVars, files, nextDoc, histVars>>

---------------------------------------------------------------------------
(* The requests of the gateway, overlapping and one after another. *)

Succeeded(req) == req.res.status \in {200, 201} /\ req.res.rows # <<>>

\* The response has reached the client; the slot is free again. The history
\* keeps the last schema response, the last answer response, and the id and
\* created_at of the first answer response.
Finish(r) ==
  /\ reqs[r].pc = "done"
  /\ reqs' = [reqs EXCEPT ![r] = IdleReq]
  /\ LET req == reqs[r]
     IN  /\ prevSchema' = IF req.op = "postSchema" /\ Succeeded(req)
                            THEN [prevSchema EXCEPT ![req.id] = req.res.rows]
                            ELSE prevSchema
         /\ prevAnswer' = IF req.op = "postAnswer" /\ Succeeded(req)
                            THEN [prevAnswer EXCEPT ![req.id] = req.res.rows]
                            ELSE prevAnswer
         /\ firstAnswer' = IF req.op = "postAnswer" /\ Succeeded(req)
                                /\ firstAnswer[req.id] = <<>>
                             THEN [firstAnswer EXCEPT ![req.id] =
                                     <<[id |-> req.res.rows[1].id,
                                        created_at |-> req.res.rows[1].created_at]>>]
                             ELSE firstAnswer
  /\ UNCHANGED <<tokVars, mapVars, dbVars, files, nextDoc, deleted, unlinkFailed>>

Step(r) ==
  \/ UploadStart(r) \/ UploadWriteFile(r) \/ UploadInsert(r) \/ UploadParse(r)
  \/ UploadToHtml(r) \/ UploadCommit(r)
  \/ DeleteStart(r) \/ DeleteSelect(r) \/ DeleteCommit(r) \/ DeleteUnlink(r)
  \/ FetchDocQuery(r) \/ FetchDocRead(r)
  \/ PostSchemaStart(r) \/ PostSchemaExisting(r) \/ PostSchemaCollab(r) \/ PostSchemaInsert(r)
  \/ PostAnswerStart(r) \/ PostAnswerExisting(r) \/ PostAnswerUpdate(r) \/ PostAnswerInsert(r)
  \/ RenderStart(r) \/ RenderSchema(r) \/ RenderAnswers(r) \/ RenderCollab(r)
  \/ GetDocStart(r) \/ GetDocQuery(r)
  \/ PreviewStart(r) \/ PreviewQuery(r) \/ PreviewRead(r) \/ PreviewCollab(r)
  \/ PreviewUpdate(r)
  \/ GetSchemaStart(r) \/ GetSchemaQuery(r) \/ GetAnswerStart(r) \/ GetAnswerQuery(r)
  \/ Finish(r)

InitGw == GwInit /\ TokIdle /\ MapIdle

Next == \E r \in Slots : Step(r)

Spec == InitGw /\ [][Next]_vars

\* One request at a time: every request goes through the first slot, which
\* takes up a request only when the one before it has been answered.
NextSeq == Step(1)

SpecSeq == InitGw /\ [][NextSeq]_vars

\* The steps of POST schema, and those of POST answer, fetchDocument included.
PostSchemaStep(r) ==
  \/ FetchDocQuery(r) \/ FetchDocRead(r)
  \/ PostSchemaStart(r) \/ PostSchemaExisting(r) \/ PostSchemaCollab(r) \/ PostSchemaInsert(r)
  \/ Finish(r)

PostAnswerStep(r) ==
  \/ FetchDocQuery(r) \/ FetchDocRead(r)
  \/ PostAnswerStart(r) \/ PostAnswerExisting(r) \/ PostAnswerUpdate(r) \/ PostAnswerInsert(r)
  \/ Finish(r)

UploadStep(r) ==
  \/ UploadStart(r) \/ UploadWriteFile(r) \/ UploadInsert(r) \/ UploadParse(r)
  \/ UploadToHtml(r) \/ UploadCommit(r)

DeleteStep(r) ==
  \/ DeleteStart(r) \/ DeleteSelect(r) \/ DeleteCommit(r) \/ DeleteUnlink(r) \/ Finish(r)

\* Overlapping create-schema requests: uploads, and POST schema in two slots
\* at once.
NextSchemas == UploadStep(1) \/ PostSchemaStep(1) \/ PostSchemaStep(2)

SpecSchemas == InitGw /\ [][NextSchemas]_vars

\* Overlapping submissions: uploads, and POST answer in two slots at once.
NextAnswers == UploadStep(1) \/ PostAnswerStep(1) \/ PostAnswerStep(2)

SpecAnswers == InitGw /\ [][NextAnswers]_vars

\* A delete beside the other requests: the first slot takes the requests of
\* every kind one after another, the second takes deletes.
NextDel == Step(1) \/ DeleteStep(2)

SpecDel == InitGw /\ [][NextDel]_vars

\* The reads of the latest schema row that need no answers: GET schema, and
\* render as far as its 409.
SchemaReadStep(r) ==
  \/ FetchDocQuery(r) \/ FetchDocRead(r)
  \/ GetSchemaStart(r) \/ GetSchemaQuery(r)
  \/ RenderStart(r) \/ RenderSchema(r) \/ RenderAnswers(r)
  \/ Finish(r)

\* Overlapping create-schema requests and the reads of the schema after them.
NextLatest ==
  UploadStep(1) \/ PostSchemaStep(1) \/ PostSchemaStep(2) \/ SchemaReadStep(1)

SpecLatest == InitGw /\ [][NextLatest]_vars

---------------------------------------------------------------------------
(* Claims about collectPlaceholderTokens, checked under SpecTok. *)

\* The string has a run of three or more underscores after other text.
RunAfterText(s) ==
  \E i \in 1..(Len(s) - 2) :
    /\ s[i] = "_" /\ s[i + 1] = "_" /\ s[i + 2] = "_"
    /\ \E j \in 1..(i - 1) : s[j] # "_" /\ ~IsSpace(s[j])

C5_Case ==
  /\ tokPc = "return"
  /\ ~IsBracketed(Trim(source))
  /\ RunAfterText(Trim(source))

\* C5 as stated: a string that is not bracket-delimited and has a run of three
\* or more underscores after other text yields exactly one token, the string
\* itself; "Signature ____" yields {"Signature ____"} and nothing else.
C5_OnlyTheStringItself ==
  C5_Case => tokens = <<Trim(source)>>

\* C5 as amended: such a string yields exactly two tokens, the (trimmed)
\* string itself and the bracketed variant with every underscore replaced by a
\* space and trimmed; "Signature ____" yields {"Signature ____", "[Signature]"}.
C5_StringAndBracketedVariant ==
  /\ C5_Case =>
       /\ Len(tokens) = 2
       /\ Range(tokens) = {Trim(source), Bracket(Trim(ReplaceUnderscores(Trim(source))))}
  /\ (tokPc = "return" /\ source = sSignatureBlank) =>
       Range(tokens) = {sSignatureBlank, sSignatureBr}

C5_Witness ==
  /\ C5_Case
  /\ source = sSignatureBlank
  /\ tokens = <<sSignatureBlank, sSignatureBr>>

C6_Case ==
  /\ tokPc = "return"
  /\ IsBracketed(Trim(source))

\* C6: a fully bracket-delimited string yields the whole bracketed string, and
\* its inner content (brackets stripped, and trimmed as the code trims it) as a
\* second token if and only if the inner content holds a run of three or more
\* underscores: "[Effective Date]" yields exactly {"[Effective Date]"} and
\* "[DATE____]" exactly {"[DATE____]", "DATE____"}.
C6_BracketedTokens ==
  /\ C6_Case =>
       LET whole == Trim(source)
           inner == SubSeq(whole, 2, Len(whole) - 1)
       IN  /\ Range(tokens) = {whole} \cup
                 (IF HasUnderscoreRun(inner) THEN {Trim(inner)} ELSE {})
           /\ Len(tokens) = IF HasUnderscoreRun(inner) THEN 2 ELSE 1
  /\ (tokPc = "return" /\ source = sEffectiveDate) => tokens = <<sEffectiveDate>>
  /\ (tokPc = "return" /\ source = sDateBlankBr) =>
       Range(tokens) = {sDateBlankBr, sDateBlank}

C6_Witness ==
  /\ C6_Case
  /\ source = sDateBlankBr
  /\ tokens = <<sDateBlankBr, sDateBlank>>

C7_Case ==
  /\ tokPc = "return"
  /\ ~IsBracketed(Trim(source))
  /\ Includes(source, "_")
  /\ ~HasUnderscoreRun(source)

\* C7: a non-bracketed string with underscores but no run of three or more
\* yields exactly one token, the string with every underscore replaced by a
\* space, trimmed and wrapped in square brackets, letter case unchanged
\* ("COMPANY_NAME" yields exactly {"[COMPANY NAME]"}); when the replacement
\* leaves an empty string, no token is returned.
C7_MachineKeyToken ==
  /\ C7_Case =>
       LET shown == Trim(ReplaceUnderscores(source))
       IN  tokens = IF shown = <<>> THEN <<>> ELSE <<Bracket(shown)>>
  /\ (tokPc = "return" /\ source = sCOMPANY_NAME) => tokens = <<sCompanyNameBr>>

C7_Witness ==
  /\ C7_Case
  /\ source = sCOMPANY_NAME
  /\ tokens = <<sCompanyNameBr>>

---------------------------------------------------------------------------
(* Claims about the mapping computation, checked under SpecMap. *)

RECURSIVE FlatFields(_)
FlatFields(groups) ==
  IF groups = <<>> THEN <<>> ELSE Head(groups).fields \o FlatFields(Tail(groups))

MapDone == groupIdx > Len(schemaBody.groups)

\* The fields the loops have passed, in schema order.
Processed ==
  IF MapDone THEN FlatFields(schemaBody.groups)
  ELSE FlatFields(SubSeq(schemaBody.groups, 1, groupIdx - 1))
         \o SubSeq(schemaBody.groups[groupIdx].fields, 1, fieldIdx - 1)

\* The value a field fills in, and the token set it resolves to: none for a
\* field the loop skips (no key, or no answer).
AnswerOf(field) == Lookup(answersBody, field.key)

Fills(field) == field.key # <<>> /\ ~IsNullish(AnswerOf(field))

ResolvedSet(field) ==
  IF Fills(field)
    THEN Range(resolveTokens(field, placeholderMeta(parseJson), placeholderLabels(parseJson)))
    ELSE {}

FirstWriter(fields, t) == Min({i \in 1..Len(fields) : t \in ResolvedSet(fields[i])})

\* C1: after any number of fields, the mapping holds exactly the tokens the
\* fields passed so far resolve to, each with the string value of the first
\* field in schema order (groups in order, fields in order inside a group)
\* whose resolved token set holds it: on an overlap the earlier field wins.
C1_EarlierFieldWins ==
  tokPc = "idle" =>
    /\ DOMAIN mapping = UNION {ResolvedSet(Processed[i]) : i \in 1..Len(Processed)}
    /\ \A t \in DOMAIN mapping :
         mapping[t] = String(AnswerOf(Processed[FirstWriter(Processed, t)]))

\* C1, second half: once a token is set, no later step changes or drops it.
C1_NeverOverwritten ==
  [][\A t \in DOMAIN mapping : t \in DOMAIN mapping' /\ mapping'[t] = mapping[t]]_vars

\* C1: on a token collision the earlier field in schema order wins, and a
\* token once set in the mapping is never overwritten.
C1_FirstWriterWins == []C1_EarlierFieldWins /\ C1_NeverOverwritten

\* Two fields with different values collide on a token, and the loop is done.
C1_Witness ==
  /\ MapDone
  /\ \E i, j \in 1..Len(Processed) :
       /\ i < j
       /\ String(AnswerOf(Processed[i])) # String(AnswerOf(Processed[j]))
       /\ \E t \in ResolvedSet(Processed[i]) \cap ResolvedSet(Processed[j]) :
            mapping[t] = String(AnswerOf(Processed[i]))

C8_Scenario ==
  /\ MapDone
  /\ parseJson = [placeholders |-> <<pCompany, pDate>>]
  /\ answersBody = (kCompany :> JStr(sAcme)) @@ (kDate :> JStr(s2024_01_01))
  /\ FlatFields(schemaBody.groups) \in {<<fCompany, fDate>>, <<fDate, fCompany>>}

\* C8: in the end-to-end scenario (placeholders company_name and date with
\* the captured tokens "[COMPANY NAME]" and "DATE____", schema fields
\* company_name without targets and date, answers Acme and 2024-01-01) the
\* mapping includes "[COMPANY NAME]" -> "Acme" and "DATE____" -> "2024-01-01".
C8_EndToEndMapping ==
  C8_Scenario =>
    /\ sCompanyNameBr \in DOMAIN mapping
    /\ mapping[sCompanyNameBr] = sAcme
    /\ sDateBlank \in DOMAIN mapping
    /\ mapping[sDateBlank] = s2024_01_01

C8_Witness ==
  /\ C8_Scenario
  /\ schemaBody = TwoGroups(<<fCompany, fDate>>, 2)
  /\ mapping = (sCompanyNameBr :> sAcme) @@ (sDateBlank :> s2024_01_01)
                 @@ (sDateBr :> s2024_01_01)

---------------------------------------------------------------------------
(* Claims about the gateway's requests, one after another (SpecSeq). *)

Done(r, op) == reqs[r].op = op /\ reqs[r].pc = "done"

SchemasOf(id) == {s \in schemas : s.doc_id = id}

AnswersOf(id) == {a \in answers : a.doc_id = id}

\* C2: for an existing document, render answers 409 "incomplete" exactly when
\* a schema or an answer set is missing, and its needs list names exactly
\* what is missing: schema and answers, only answers, or only schema.
C2_IncompleteNeeds ==
  \A r \in Slots : Done(r, "render") =>
    LET id  == reqs[r].id
        res == reqs[r].res
    IN  /\ res.status = 409 <=>
             (DocRows(id) # {} /\ (SchemasOf(id) = {} \/ AnswersOf(id) = {}))
        /\ res.status = 409 =>
             /\ res.error = "incomplete"
             /\ res.needs = CASE SchemasOf(id) = {} /\ AnswersOf(id) = {} -> <<"schema", "answers">>
                              [] SchemasOf(id) # {} /\ AnswersOf(id) = {} -> <<"answers">>
                              [] SchemasOf(id) = {} /\ AnswersOf(id) # {} -> <<"schema">>

\* Answers are stored, no schema is, and render has answered 409 naming the schema.
C2_Witness ==
  \E r \in Slots :
    /\ Done(r, "render")
    /\ reqs[r].res.status = 409
    /\ SchemasOf(reqs[r].id) = {} /\ AnswersOf(reqs[r].id) # {}
    /\ reqs[r].res.needs = <<"schema">>

\* C3: after a successful answer submission that follows others, the document
\* has exactly one answer row; its body is the submitted body as a whole, its
\* id and created_at are those of the first submission, and its updated_at is
\* not earlier than the time before the submission nor than the one before.
C3_UpsertSingleRow ==
  \A r \in Slots :
    (Done(r, "postAnswer") /\ reqs[r].res.status \in {200, 201}) =>
      LET id    == reqs[r].id
          first == firstAnswer[id]
          prev  == prevAnswer[id]
      IN  /\ Cardinality(AnswersOf(id)) = 1
          /\ reqs[r].res.rows \in {<<a>> : a \in AnswersOf(id)}
          /\ \A row \in AnswersOf(id) :
               /\ row.body = reqs[r].payload.body
               /\ DOMAIN row.body = DOMAIN reqs[r].payload.body
               /\ row.updated_at >= reqs[r].at
               /\ first # <<>> => /\ row.id = first[1].id
                                  /\ row.created_at = first[1].created_at
                                  /\ row.updated_at >= prev[1].updated_at
          /\ reqs[r].res.status = 201 <=> first = <<>>

\* A later submission has succeeded whose body omits a key of the one before.
C3_Witness ==
  \E r \in Slots :
    /\ Done(r, "postAnswer") /\ reqs[r].res.status = 200
    /\ prevAnswer[reqs[r].id] # <<>>
    /\ \E k \in DOMAIN prevAnswer[reqs[r].id][1].body : k \notin DOMAIN reqs[r].payload.body
    /\ reqs[r].payload.body # <<>>

\* C4: once POST schema has answered 201 for a document, every later call
\* that finds the document answers 200 with the same row (same id and body)
\* without calling /schema; 201 is answered only by the first successful
\* call, after one call of /schema; the document never has two schema rows.
C4_SchemaIdempotent ==
  /\ \A d \in DocIds : Cardinality(SchemasOf(d)) <= 1
  /\ \A r \in Slots : Done(r, "postSchema") =>
       LET id   == reqs[r].id
           res  == reqs[r].res
           prev == prevSchema[id]
       IN  /\ res.status = 201 =>
                /\ prev = <<>> /\ reqs[r].calls = 1
                /\ {formatSchemaPayload(s) : s \in SchemasOf(id)} = {res.rows[1]}
           /\ res.status = 200 => prev # <<>>
           /\ (prev # <<>> /\ res.status # 404) =>
                /\ res.status = 200
                /\ res.rows = prev
                /\ res.rows[1]._meta.id = prev[1]._meta.id
                /\ res.rows[1].groups = prev[1].groups
                /\ reqs[r].calls = 0
                /\ {formatSchemaPayload(s) : s \in SchemasOf(id)} = {prev[1]}

\* A second call has answered 200 with the stored row and has not called /schema.
C4_Witness ==
  \E r \in Slots :
    /\ Done(r, "postSchema") /\ reqs[r].res.status = 200
    /\ prevSchema[reqs[r].id] # <<>>
    /\ reqs[r].res.rows = prevSchema[reqs[r].id]
    /\ reqs[r].calls = 0

\* C10: when /render answers with a non-success status, render answers 502
\* "render_failed" with a detail that is the first 400 characters of the error
\* text (all of it when shorter), after exactly one call of /render; no
\* render request calls /render twice.
C10_RenderFailedOnce ==
  \A r \in Slots : reqs[r].op = "render" =>
    /\ reqs[r].calls <= 1
    /\ (reqs[r].pc = "done" /\ reqs[r].json # <<>> /\ ~reqs[r].json[1].ok) =>
         LET res  == reqs[r].res
             text == reqs[r].json[1].text
         IN  /\ res.status = 502
             /\ res.error = "render_failed"
             /\ Len(res.detail) <= DetailMax
             /\ Len(res.detail) <= Len(text)
             /\ res.detail = SubSeq(text, 1, Len(res.detail))
             /\ Len(res.detail) < DetailMax => res.detail = text
             /\ reqs[r].calls = 1

\* /render has failed with a text longer than the limit, cut in the response.
C10_Witness ==
  \E r \in Slots :
    /\ Done(r, "render") /\ reqs[r].json # <<>> /\ ~reqs[r].json[1].ok
    /\ Len(reqs[r].json[1].text) > DetailMax
    /\ Len(reqs[r].res.detail) = DetailMax
    /\ reqs[r].res.status = 502

\* A collaborator call of the request has failed and the response is out.
CollabFailed(r) == reqs[r].pc = "done" /\ reqs[r].collab \in {"http", "unreachable"}

\* C11: in upload, preview, create schema and render, a failed collaborator
\* call, be it a non-2xx response or the collaborator unreachable, is
\* answered with 502.
C11_CollaboratorFailureIs502 ==
  \A r \in Slots : CollabFailed(r) => reqs[r].res.status = 502

\* An upload that drew a document id has been answered with an error.
UploadFailed(r) ==
  /\ Done(r, "upload") /\ reqs[r].res.status \notin {0, 200} /\ reqs[r].id # 0

PlaceholdersOf(id) == {p \in placeholders : p.document_id = id}

\* C12 as stated: after an upload that ended with an error response neither
\* a documents row, nor placeholders rows, nor a stored bytes file exists for
\* the upload's document id.
C12_FailedUploadLeavesNothing ==
  \A r \in Slots : UploadFailed(r) =>
    /\ DocRows(reqs[r].id) = {} /\ PlaceholdersOf(reqs[r].id) = {}
    /\ reqs[r].id \notin files

\* C12: the file is there from before the transaction begins until the
\* upload is answered; after an upload that ended with an error response no
\* documents row and no placeholders row exists for its id, and no bytes
\* file either unless the unlink itself failed.
C12_FailedUploadCleansUp ==
  \A r \in Slots :
    /\ (reqs[r].op = "upload" /\ reqs[r].pc \in {"insert", "parse", "toHtml", "commit"}) =>
         reqs[r].id \in files
    /\ UploadFailed(r) =>
         /\ DocRows(reqs[r].id) = {} /\ PlaceholdersOf(reqs[r].id) = {}
         /\ reqs[r].id \in files => reqs[r].id \in unlinkFailed

\* A collaborator call of an upload has failed after the file was written,
\* and the file is gone again.
C12_Witness ==
  \E r \in Slots :
    /\ UploadFailed(r) /\ reqs[r].res.status = 502
    /\ reqs[r].collab \in {"http", "unreachable"}
    /\ reqs[r].id \notin files /\ reqs[r].id \notin unlinkFailed

\* The delete in slot r has answered {ok: true} after removing the row.
DeleteSucceeded(req) ==
  req.op = "delete" /\ req.pc = "done" /\ req.res.status = 200 /\ req.res.info = ""

\* A delete is at its unlink only with the row deleted and the deletion committed.
C13_UnlinkAfterCommit ==
  \A r \in Slots :
    (reqs[r].op = "delete" /\ reqs[r].pc = "unlink") =>
      DocRows(reqs[r].id) = {} /\ reqs[r].id \in deleted

\* A step of a delete request removes a file only at its unlink, and a delete
\* that ends otherwise than with {ok: true} after a commit, the transaction
\* failed or the document absent, has never been at its unlink.
C13_NoUnlinkWithoutCommit ==
  [][\A r \in Slots : reqs[r].op = "delete" =>
       /\ files' # files => reqs[r].pc = "unlink" /\ DocRows(reqs[r].id) = {}
       /\ (reqs[r].pc # "done" /\ reqs'[r].pc = "done" /\ ~DeleteSucceeded(reqs'[r])) =>
            reqs[r].pc # "unlink" /\ files' = files]_vars

\* C13: DELETE unlinks the stored bytes file only after the transaction that
\* deletes the documents row has committed; when the transaction fails or is
\* rolled back, the document not existing included, it removes no file.
C13_UnlinkOnlyAfterCommit == []C13_UnlinkAfterCommit /\ C13_NoUnlinkWithoutCommit

\* A delete has committed, then removed the file, and has answered.
C13_Witness ==
  \E r \in Slots :
    /\ DeleteSucceeded(reqs[r])
    /\ reqs[r].id \in deleted
    /\ reqs[r].doc[1].storage_url \notin files
    /\ reqs[r].id \notin unlinkFailed

\* C14: across every sequence and interleaving of POST schema requests for a
\* document, the document never has more than one schema row, and every
\* successful response carries the same schema id and the same fields (keys
\* and targets) as the other successful responses, past and present.
C14_OneSchemaUnderOverlap ==
  /\ \A d \in DocIds : Cardinality(SchemasOf(d)) <= 1
  /\ \A r \in Slots : (Done(r, "postSchema") /\ Succeeded(reqs[r])) =>
       /\ \A q \in Slots :
            (Done(q, "postSchema") /\ Succeeded(reqs[q]) /\ reqs[q].id = reqs[r].id) =>
              /\ reqs[q].res.rows[1]._meta.id = reqs[r].res.rows[1]._meta.id
              /\ reqs[q].res.rows[1].groups = reqs[r].res.rows[1].groups
       /\ prevSchema[reqs[r].id] # <<>> =>
            /\ prevSchema[reqs[r].id][1]._meta.id = reqs[r].res.rows[1]._meta.id
            /\ prevSchema[reqs[r].id][1].groups = reqs[r].res.rows[1].groups

\* C15: in every reachable state, those reached by overlapping POST answer
\* requests included, a document has at most one answer row, and exactly one
\* once a submission for it has succeeded.
C15_OneAnswerRowUnderOverlap ==
  /\ \A d \in DocIds : Cardinality(AnswersOf(d)) <= 1
  /\ \A d \in DocIds : (d \notin deleted /\ firstAnswer[d] # <<>>) => Cardinality(AnswersOf(d)) = 1
  /\ \A r \in Slots :
       (Done(r, "postAnswer") /\ Succeeded(reqs[r]) /\ reqs[r].id \notin deleted) =>
         Cardinality(AnswersOf(reqs[r].id)) = 1

ReadOps == {"getDoc", "preview", "getSchema", "getAnswer", "render"}

\* C16: a read of a document beside a DELETE of it either answers 404 or
\* sees the document complete: once it has found the documents row it is
\* without the stored bytes only if reading the file that is there failed,
\* and it does not end in the error of a read whose bytes have disappeared.
C16_ReadsNeverRaceWithDelete ==
  \A r \in Slots : reqs[r].op \in ReadOps =>
    /\ (UsesFetchDocument(reqs[r].op) /\ reqs[r].doc # <<>>
          /\ reqs[r].pc \notin {"fetchDoc", "readFile"}) =>
         reqs[r].doc[1].bytes_b64 \/ reqs[r].doc[1].storage_url \in files
    /\ (reqs[r].pc = "done"
          /\ reqs[r].res.error \in {"doc_bytes_missing", "Failed to read stored document"}) =>
         reqs[r].doc[1].storage_url \in files

\* The row of the answers table with the given id, as a set.
AnswerRow(table, id) == {a \in table : a.id = id}

\* C17: when POST answer updates an existing answer row, the row's schema
\* reference becomes the submitted schema_id when one is submitted and stays
\* what it was before otherwise; a submission without schema_id never clears
\* a stored reference.
C17_SchemaReferenceKept ==
  [][\A r \in Slots :
       (/\ reqs[r].op = "postAnswer" /\ reqs[r].pc = "write" /\ reqs[r].answers # <<>>
        /\ reqs'[r].pc = "done" /\ reqs'[r].res.status = 200 /\ reqs'[r].res.rows # <<>>) =>
         \A old \in AnswerRow(answers, reqs[r].answers[1]) :
           /\ AnswerRow(answers', old.id) = {reqs'[r].res.rows[1]}
           /\ \A new \in AnswerRow(answers', old.id) :
                /\ reqs[r].payload.schema_id # <<>> => new.schema_id = reqs[r].payload.schema_id
                /\ reqs[r].payload.schema_id = <<>> => new.schema_id = old.schema_id]_vars

\* A submission without schema_id has updated a row that had a schema
\* reference, and the reference is still there.
C17_Witness ==
  \E r \in Slots :
    /\ Done(r, "postAnswer") /\ reqs[r].res.status = 200 /\ reqs[r].res.rows # <<>>
    /\ reqs[r].payload.schema_id = <<>>
    /\ reqs[r].res.rows[1].schema_id # <<>>
    /\ prevAnswer[reqs[r].id] # <<>>
    /\ prevAnswer[reqs[r].id][1].schema_id = reqs[r].res.rows[1].schema_id

\* The requests that must answer 404 for a deleted document.
DocOps == {"getDoc", "getSchema", "postSchema", "getAnswer", "postAnswer", "render"}

\* The DELETE of the document has committed and its handler is past the unlink.
DeleteOver(id) ==
  /\ id \in deleted
  /\ \A r \in Slots : ~(reqs[r].op = "delete" /\ reqs[r].id = id /\ reqs[r].pc = "unlink")

\* No row of a deleted document is left in any table.
C18_RowsGone ==
  \A id \in deleted :
    DocRows(id) = {} /\ PlaceholdersOf(id) = {} /\ SchemasOf(id) = {} /\ AnswersOf(id) = {}

\* A request for a deleted document, its body being one the handler accepts,
\* answers 404.
C18_Answers404 ==
  \A r \in Slots :
    (/\ reqs[r].pc = "done" /\ reqs[r].op \in DocOps /\ reqs[r].id \in deleted
     /\ reqs[r].op = "postAnswer" => reqs[r].payload.kind = "object") =>
      reqs[r].res.status = 404

\* The stored bytes of a deleted document are gone once its DELETE is over.
C18_BytesGone == \A id \in DocIds : DeleteOver(id) => id \notin files

\* C18: after a successful DELETE the documents row, the placeholders, every
\* schema row and every answer row of the document and its stored bytes are
\* gone, the document's GET, GET/POST schema, GET/POST answer and render all
\* answer 404, and no schema or answer row of the document exists later.
C18_DeletedIsGone == C18_RowsGone /\ C18_Answers404 /\ C18_BytesGone

---------------------------------------------------------------------------
(* Claims about the three steps of token resolution (SpecMap). *)

\* The normalized tokens of a list of strings, as a set.
Normalized(strs) == UNION {Range(collectPlaceholderTokens(strs[i])) : i \in DOMAIN strs}

\* What one explicit target contributes: its own normalized tokens and, when
\* it names a placeholder, those of the placeholder's captured tokens.
TargetSet(target, meta) ==
  Range(collectPlaceholderTokens(target))
    \cup (IF Trim(target) \in DOMAIN meta THEN Normalized(meta[Trim(target)].tokens) ELSE {})

\* Step i: the tokens of the explicit targets of a field.
ExplicitSet(field, meta) ==
  UNION {TargetSet(t, meta) : t \in {x \in Range(field.targets) : Trim(x) # <<>>}}

\* Step ii: the captured tokens of the placeholder the field's key names.
OwnKeySet(field, meta) ==
  IF field.key \in DOMAIN meta THEN Normalized(meta[field.key].tokens) ELSE {}

\* The label in brackets: the placeholder's label, the field's without one.
LabelSet(field, labels) ==
  LET label == IF field.key \in DOMAIN labels THEN labels[field.key] ELSE field.label
  IN  IF label = <<>> THEN {} ELSE Range(collectPlaceholderTokens(Bracket(label)))

\* The field has a key and the answers hold a value for it (815-821).
Answered(field) == field.key # <<>> /\ ~IsNullish(Lookup(answersBody, field.key))

\* C19: token resolution follows a strict fallback order: the tokens of the
\* field's own key are used only when its explicit targets gave no token, the
\* bracketed label only when both gave none; when the explicit targets give a
\* token, nothing else enters the mapping for the field.
C19_StrictFallbackOrder ==
  [][(groupIdx \in 1..Len(schemaBody.groups) /\ fieldIdx' = fieldIdx + 1) =>
       LET field == schemaBody.groups[groupIdx].fields[fieldIdx]
           meta == placeholderMeta(parseJson)
           E == ExplicitSet(field, meta)
           O == OwnKeySet(field, meta)
           L == LabelSet(field, placeholderLabels(parseJson))
           entered == DOMAIN mapping' \ DOMAIN mapping
       IN  IF ~Answered(field) THEN entered = {}
           ELSE IF E # {} THEN entered = E \ DOMAIN mapping
           ELSE IF O # {} THEN entered = O \ DOMAIN mapping
           ELSE entered = L \ DOMAIN mapping]_vars

\* A mapping is complete in which a field's explicit targets gave tokens, its
\* own key has captured tokens and a label, and only the former are mapped.
C19_Witness ==
  /\ MapDone
  /\ \E i \in DOMAIN Processed :
       LET field == Processed[i]
           meta == placeholderMeta(parseJson)
           E == ExplicitSet(field, meta)
           O == OwnKeySet(field, meta)
           L == LabelSet(field, placeholderLabels(parseJson))
       IN  /\ Answered(field)
           /\ E # {} /\ O # {} /\ L # {}
           /\ E \subseteq DOMAIN mapping
           /\ (O \cup L) \cap DOMAIN mapping = {}

\* The explicit targets of a field that are not blank (827).
Targets(field) == {field.targets[i] : i \in {j \in DOMAIN field.targets : Trim(field.targets[j]) # <<>>}}

\* C20: each explicit target of a field gives the candidate set its own
\* normalized tokens and, when the trimmed target is the key of a placeholder
\* of the document, the normalized tokens of every captured token of that
\* placeholder; a target that is no placeholder key gives only its own. The
\* candidate set of the explicit targets is the union of what each gives, and
\* it is in the mapping once an answered field has been passed.
C20_ExplicitTargetTokens ==
  LET meta == placeholderMeta(parseJson)
      Candidates(field) == Range(explicitTargetTokens(<<>>, field.targets, meta))
  IN  /\ \A field \in Range(FlatFields(schemaBody.groups)) :
           /\ Candidates(field) =
                UNION {IF Trim(t) \in DOMAIN meta
                         THEN Range(collectPlaceholderTokens(t))
                                \cup Normalized(meta[Trim(t)].tokens)
                         ELSE Range(collectPlaceholderTokens(t)) : t \in Targets(field)}
       /\ \A i \in DOMAIN Processed :
            Answered(Processed[i]) => Candidates(Processed[i]) \subseteq DOMAIN mapping

\* A mapping is complete that was built from a target naming a placeholder,
\* whose captured token is mapped beside the target's own token, and from a
\* target naming none, which gave its own token alone.
C20_Witness ==
  /\ MapDone
  /\ parseJson = [placeholders |-> <<pCompany, pDate>>]
  /\ FlatFields(schemaBody.groups) = <<fDateToCompany, fCompanyLit>>
  /\ Answered(fDateToCompany) /\ Answered(fCompanyLit)
  /\ DOMAIN mapping = {Bracket(ReplaceUnderscores(kCompany)), sCompanyNameBr, sDateLabelBr}

\* C21: every entry of the mapping comes from a schema field whose key has a
\* non-null value in the answers, and its value is the string form of that
\* answer; a field whose answer is absent or null adds no token, and an
\* answer key that no schema field has adds no token.
C21_EntriesFromAnsweredFields ==
  /\ \A t \in DOMAIN mapping :
       \E i \in DOMAIN Processed :
         /\ Processed[i].key \in DOMAIN answersBody
         /\ answersBody[Processed[i].key].t \notin {"null", "undefined"}
         /\ t \in ResolvedSet(Processed[i])
         /\ mapping[t] = String(answersBody[Processed[i].key])
  /\ (\A i \in DOMAIN Processed : ~Answered(Processed[i])) => mapping = EmptyMapping

\* A mapping is complete that holds a number as text, built from answers
\* with a null for one schema field and a value for a key no field has.
C21_Witness ==
  /\ MapDone
  /\ \E t \in DOMAIN mapping : mapping[t] = <<"7">>
  /\ \E i \in DOMAIN Processed :
       Processed[i].key \in DOMAIN answersBody /\ answersBody[Processed[i].key] = JNull
  /\ \E k \in DOMAIN answersBody :
       /\ ~IsNullish(answersBody[k])
       /\ \A i \in DOMAIN Processed : Processed[i].key # k

---------------------------------------------------------------------------
(* Claims about render, its mapping and its checks (SpecSeq). *)

\* The field has a non-null answer in the body and none of the three steps
\* gives it a token.
Silent(field, body, meta, labels) ==
  /\ field.key # <<>> /\ ~IsNullish(Lookup(body, field.key))
  /\ ExplicitSet(field, meta) = {}
  /\ OwnKeySet(field, meta) = {}
  /\ LabelSet(field, labels) = {}

\* The groups without their silent fields.
RECURSIVE WithoutSilent(_, _, _, _)
WithoutSilent(groups, body, meta, labels) ==
  IF groups = <<>> THEN <<>>
  ELSE <<[Head(groups) EXCEPT !.fields =
            SelectSeq(Head(groups).fields, LAMBDA f : ~Silent(f, body, meta, labels))]>>
         \o WithoutSilent(Tail(groups), body, meta, labels)

\* The render has its document with bytes, a schema and answers.
RenderReady(req) ==
  /\ req.op = "render" /\ req.pc \in {"collab", "done"}
  /\ req.doc # <<>> /\ req.schema # <<>> /\ req.answers # <<>>
  /\ req.doc[1].bytes_b64

SilentFields(req) ==
  {f \in Range(FlatFields(req.schema[1].body.groups)) :
     Silent(f, req.answers[1].body, placeholderMeta(req.doc[1].parse_json),
            placeholderLabels(req.doc[1].parse_json))}

\* C22: a field with a non-null answer and no token after the three steps
\* adds nothing to the mapping and raises no error: render calls the
\* collaborator once, the mapping it sends is the mapping of the other
\* fields, and its answer is the collaborator's.
C22_SilentFieldIsNoError ==
  \A r \in Slots :
    RenderReady(reqs[r]) =>
      LET body   == reqs[r].answers[1].body
          meta   == placeholderMeta(reqs[r].doc[1].parse_json)
          labels == placeholderLabels(reqs[r].doc[1].parse_json)
          others == WithoutSilent(reqs[r].schema[1].body.groups, body, meta, labels)
      IN  /\ reqs[r].calls = 1
          /\ reqs[r].pc = "collab" =>
               reqs[r].sent = <<mapGroups(EmptyMapping, others, body, meta, labels)>>
          /\ (reqs[r].pc = "done" /\ reqs[r].collab = "ok") => reqs[r].res.status = 200

\* A render whose schema has a silent field has answered 200.
C22_Witness ==
  \E r \in Slots :
    /\ RenderReady(reqs[r]) /\ reqs[r].pc = "done" /\ reqs[r].res.status = 200
    /\ SilentFields(reqs[r]) # {}
    /\ reqs[r].sent # <<EmptyMapping>>

---------------------------------------------------------------------------
(* A further claim about the normalizer (SpecTok). *)

\* The string starts with "[" and ends with "]".
EnclosingBrackets(t) == Len(t) >= 2 /\ t[1] = "[" /\ t[Len(t)] = "]"

\* A single word: no underscore, no space, no enclosing brackets.
PlainWord(t) == ~Includes(t, "_") /\ ~Includes(t, " ") /\ ~EnclosingBrackets(t)

\* Nothing but underscores and white space.
OnlyUnderscoresAndBlanks(t) == \A i \in 1..Len(t) : t[i] = "_" \/ IsSpace(t[i])

NoDuplicates(seq) == \A i, j \in 1..Len(seq) : seq[i] = seq[j] => i = j

\* C23 as stated: the tokens returned are duplicate-free, and none is
\* returned exactly for the strings that, trimmed, are empty or a single word
\* with no underscore, no space and no enclosing brackets.
C23_EmptyOnlyForPlainWords ==
  tokPc = "return" =>
    /\ NoDuplicates(tokens)
    /\ tokens = <<>> <=> (Trim(source) = <<>> \/ PlainWord(Trim(source)))

\* C23 as amended: the tokens returned are duplicate-free, and none is
\* returned exactly for the strings that, trimmed, are empty, or have no run
\* of three underscores, are not bracket-delimited around an inner text
\* without "]", and either have no underscore and no space or are made of
\* underscores and white space only.
C23_EmptyForWordsAndBareUnderscores ==
  tokPc = "return" =>
    LET t == Trim(source)
    IN  /\ NoDuplicates(tokens)
        /\ tokens = <<>> <=>
             \/ t = <<>>
             \/ /\ ~HasUnderscoreRun(t)
                /\ ~IsBracketed(t)
                /\ \/ ~Includes(t, "_") /\ ~Includes(t, " ")
                   \/ OnlyUnderscoresAndBlanks(t)

\* The normalizer has returned nothing for a string of two underscores.
C23_Witness ==
  /\ tokPc = "return"
  /\ source = <<"_", "_">>
  /\ tokens = <<>>

\* C24: render calls the collaborator only when the document exists, a
\* schema and answers are stored for it and its bytes could be read; the
\* checks come in this order: unknown document 404, else missing schema or
\* answers 409, else unreadable bytes 500 "doc_bytes_missing"; a document
\* with unreadable bytes and no schema answers 409.
C24_RenderChecksInOrder ==
  \A r \in Slots : reqs[r].op = "render" =>
    LET id == reqs[r].id
        complete == SchemasOf(id) # {} /\ AnswersOf(id) # {}
    IN  /\ reqs[r].calls > 0 =>
             /\ DocRows(id) # {} /\ complete
             /\ reqs[r].doc # <<>> /\ reqs[r].doc[1].bytes_b64
        /\ reqs[r].pc = "done" =>
             IF DocRows(id) = {}
               THEN reqs[r].res.status = 404 /\ reqs[r].res.error = "doc_not_found"
                    /\ reqs[r].calls = 0
             ELSE IF ~complete
               THEN reqs[r].res.status = 409 /\ reqs[r].res.error = "incomplete"
                    /\ reqs[r].calls = 0
             ELSE IF ~reqs[r].doc[1].bytes_b64
               THEN reqs[r].res.status = 500 /\ reqs[r].res.error = "doc_bytes_missing"
                    /\ reqs[r].calls = 0
             ELSE reqs[r].calls = 1

\* A render of a document without schema whose bytes could not be read has
\* answered 409.
C24_Witness ==
  \E r \in Slots :
    /\ Done(r, "render") /\ reqs[r].doc # <<>> /\ ~reqs[r].doc[1].bytes_b64
    /\ SchemasOf(reqs[r].id) = {}
    /\ reqs[r].res.status = 409 /\ "schema" \in Range(reqs[r].res.needs)

---------------------------------------------------------------------------
(* Claims about the schema rows under overlapping requests (SpecLatest). *)

\* The schema row of the document with the most recent created_at.
Newest(id) ==
  CHOOSE s \in SchemasOf(id) : \A t \in SchemasOf(id) : t.created_at <= s.created_at

\* The request is at its SELECT of the latest schema row.
AtSchemaRead(req) ==
  \/ req.op = "postSchema" /\ req.pc = "existing"
  \/ req.op \in {"getSchema", "render"} /\ req.pc = "schema"

\* No two schema rows of a document have the same created_at.
C25_DistinctCreatedAt ==
  \A s, t \in schemas : (s.doc_id = t.doc_id /\ s.created_at = t.created_at) => s = t

\* Each read of a document's schema, when rows exist, takes the row with the
\* most recent created_at of the rows there are when it reads.
C25_ReadsTakeNewest ==
  [][\A r \in Slots :
       (AtSchemaRead(reqs[r]) /\ reqs'[r] # reqs[r] /\ SchemasOf(reqs[r].id) # {}) =>
         IF reqs[r].op = "render"
           THEN reqs'[r].schema = <<Newest(reqs[r].id)>>
           ELSE /\ reqs'[r].res.status = 200
                /\ reqs'[r].res.rows = <<formatSchemaPayload(Newest(reqs[r].id))>>]_vars

---------------------------------------------------------------------------
(* Claims about the errors of POST schema and POST answer (SpecSeq). *)

\* A POST schema whose call of /schema has failed.
SchemaCallFailed(req) ==
  req.op = "postSchema" /\ req.pc = "done" /\ req.collab \in {"http", "unreachable"}

\* A failed call is answered 502 and leaves the document without schema row;
\* an unknown document is answered 404 and no call is made for it.
C26_FailedCallStoresNothing ==
  \A r \in Slots :
    /\ SchemaCallFailed(reqs[r]) =>
         /\ reqs[r].res.status = 502
         /\ reqs[r].calls = 1
         /\ SchemasOf(reqs[r].id) = {}
    /\ (Done(r, "postSchema") /\ DocRows(reqs[r].id) = {}) =>
         /\ reqs[r].res.status = 404
         /\ reqs[r].calls = 0

\* The step that answers the failed call changes no schema row, and a POST
\* that finds no schema row calls the collaborator, whatever came before.
C26_CallsAgain ==
  [][\A r \in Slots :
       /\ (~SchemaCallFailed(reqs[r]) /\ SchemaCallFailed(reqs'[r])) => schemas' = schemas
       /\ (reqs[r].op = "postSchema" /\ reqs[r].pc = "existing" /\ reqs'[r] # reqs[r]
             /\ SchemasOf(reqs[r].id) = {}) =>
            reqs'[r].pc = "collab" /\ reqs'[r].calls = reqs[r].calls + 1]_vars

\* C26: when /schema fails during POST schema the gateway answers 502 and
\* stores no schema row, so a later POST for the document calls the
\* collaborator again; POST for an unknown document answers 404 without a call.
C26_SchemaCallFailure == []C26_FailedCallStoresNothing /\ C26_CallsAgain

\* A POST schema has answered 502 after the collaborator's non-2xx answer.
C26_Witness ==
  \E r \in Slots :
    /\ SchemaCallFailed(reqs[r]) /\ reqs[r].collab = "http"
    /\ reqs[r].res.status = 502
    /\ DocRows(reqs[r].id) # {} /\ SchemasOf(reqs[r].id) = {}

\* The request body has no body member, a null one, or one that is an array
\* or a scalar.
InvalidBody(payload) == payload.kind \in {"missing", "null", "array", "scalar"}

\* An invalid body is answered 400 without a lookup of the document; a valid
\* one for a document that does not exist is answered 404.
C27_Answers400Then404 ==
  \A r \in Slots : Done(r, "postAnswer") =>
    /\ InvalidBody(reqs[r].payload) => reqs[r].res.status = 400 /\ reqs[r].doc = <<>>
    /\ (~InvalidBody(reqs[r].payload) /\ DocRows(reqs[r].id) = {}) => reqs[r].res.status = 404

\* No step of a submission that is answered 400 or 404 changes an answer row.
C27_RowsUnchanged ==
  [][\A r \in Slots :
       (reqs'[r].op = "postAnswer" /\ reqs'[r] # reqs[r]
          /\ (reqs'[r].pc = "done" => reqs'[r].res.status \in {400, 404})
          /\ (reqs'[r].pc # "done" => reqs'[r].pc \in {"fetchDoc", "readFile"})) =>
         answers' = answers]_vars

\* C27: POST answer answers 400 for a missing, null, array or scalar body and
\* 404 for a document that does not exist; the answer rows are unchanged in
\* both cases, and the 400 check comes before the lookup of the document.
C27_InvalidBodyOrUnknownDocument == []C27_Answers400Then404 /\ C27_RowsUnchanged

\* An array body for a document that does not exist has been answered 400.
C27_Witness ==
  \E r \in Slots :
    /\ Done(r, "postAnswer") /\ reqs[r].payload.kind = "array"
    /\ DocRows(reqs[r].id) = {}
    /\ reqs[r].res.status = 400

---------------------------------------------------------------------------
(* Claims about what the requests leave unchanged (SpecSeq). *)

\* C28: once a schema row exists no operation changes its body, model name,
\* id or created_at: submissions, render, preview and repeated create-schema
\* requests leave every schema row as it is, and a row disappears only with
\* the deletion of its document.
C28_SchemaRowsImmutable ==
  [][\A s \in schemas :
       \/ s \in schemas' /\ \A t \in schemas' : t.id = s.id => t = s
       \/ /\ \A t \in schemas' : t.id # s.id
          /\ \E d \in documents : d.id = s.doc_id
          /\ \A d \in documents' : d.id # s.doc_id
          /\ \E r \in Slots : reqs[r].op = "delete" /\ reqs[r].id = s.doc_id]_vars

\* A repeated create-schema request has answered with the stored row of a
\* document that has answers too.
C28_Witness ==
  \E r \in Slots :
    /\ Done(r, "postSchema") /\ reqs[r].res.status = 200
    /\ AnswersOf(reqs[r].id) # {}
    /\ \E s \in SchemasOf(reqs[r].id) :
         /\ reqs[r].res.rows = <<formatSchemaPayload(s)>>
         /\ s.created_at < now

\* No upload and no delete is between its first step and its end.
NoneInFlight ==
  \A r \in Slots : reqs[r].op \in {"upload", "delete"} => reqs[r].pc = "done"

\* C29: whenever no upload or delete is in flight and no call to the file
\* system has failed, a documents row exists for an id if and only if the
\* stored bytes file of that id exists: a completed upload leaves both, a
\* failed upload neither, a completed delete neither.
C29_RowIffBytes ==
  (NoneInFlight /\ unlinkFailed = {}) =>
    \A id \in DocIds : DocRows(id) # {} <=> id \in files

\* No step of a render changes a row or a stored file.
C30_RenderWritesNothing ==
  [][\A r \in Slots :
       ((reqs[r].op = "render" \/ reqs'[r].op = "render") /\ reqs'[r] # reqs[r]) =>
         UNCHANGED <<documents, placeholders, schemas, answers, files>>]_vars

\* What a render sends to the collaborator is the mapping of the stored rows.
C30_SendsMappingOfRows ==
  \A r \in Slots : RenderReady(reqs[r]) =>
    \E d \in DocRows(reqs[r].id), s \in LatestSchemas(reqs[r].id),
       a \in LatestAnswers(reqs[r].id) :
      reqs[r].sent = <<buildMapping(s.body, a.body, d.parse_json)>>

\* C30: render changes no persistent state, whatever its outcome: the
\* documents, placeholders, schemas and answers rows and the stored bytes are
\* the same after the request as before it, so a repeated render works on the
\* same rows and sends the same mapping.
C30_RenderChangesNothing == C30_RenderWritesNothing /\ []C30_SendsMappingOfRows

\* A render of a complete document has answered 200, and its rows and bytes
\* are there.
C30_Witness ==
  \E r \in Slots :
    /\ Done(r, "render") /\ reqs[r].res.status = 200
    /\ DocRows(reqs[r].id) # {} /\ PlaceholdersOf(reqs[r].id) # {}
    /\ SchemasOf(reqs[r].id) # {} /\ AnswersOf(reqs[r].id) # {}
    /\ reqs[r].id \in files

===========================================================================
